---- MODULE Spec2Model ----
(***************************************************************************)
(* Database access gateway of mongodb-show: the connection registries of   *)
(* the two backends, the query sanitizers, the rate limiter and the route  *)
(* handlers that compose them.                                             *)
(*                                                                         *)
(* The module holds several specifications over one set of variables.      *)
(* Each specification drives one component; the variables of the other     *)
(* components stay at their initial values.                                *)
(*   SpecFilter    sanitizeQuery on bounded filter trees                   *)
(*   SpecPipeline  sanitizePipeline on bounded pipelines                   *)
(*   SpecSql       sanitizeSqlQuery on bounded statements                  *)
(*   SpecParams    sanitizeParameterizedQuery on bounded calls             *)
(*   SpecTarget    the connection target builders on bounded descriptors   *)
(*   SpecQueryParams  sanitizeQueryParams on bounded query parameters      *)
(*   SpecLimiter   checkRateLimit called directly while time passes        *)
(*   SpecRegistry  the two connection caches under interleaved calls       *)
(*   SpecManager   the connection manager on top of the two caches         *)
(*   SpecTest      testConnection next to the calls that fill the caches   *)
(*   SpecGateway   the three query routes, step by step                    *)
(***************************************************************************)
EXTENDS Naturals, Integers, Sequences, FiniteSets, TLC

VARIABLES
    fIn,               \* sanitizeQuery: the filter handed in
    fOut,              \* sanitizeQuery: its outcome
    pIn,               \* sanitizePipeline: the pipeline handed in
    pOut,              \* sanitizePipeline: its outcome
    sIn,               \* sanitizeSqlQuery: the statement and options handed in
    sOut,              \* sanitizeSqlQuery: its outcome
    qIn,               \* sanitizeParameterizedQuery: statement, params, options
    qOut,              \* sanitizeParameterizedQuery: its outcome
    dIn,               \* the target builders: the connection descriptor handed in
    dOut,              \* the target builders: the target built
    paramsIn,          \* sanitizeQueryParams: the query parameters handed in
    paramsOut,         \* sanitizeQueryParams: its outcome
    connections,       \* the two module-level caches: backend -> id -> pool
    pools,             \* every pool object ever constructed, by number
    clients,           \* the connection manager's cache: id -> PostgresClient
    rateLimit,         \* the rate limiter's Map: key -> {count, resetTime}
    now,               \* Date.now()
    admitLog,          \* the direct calls of checkRateLimit and their results
    proc               \* the calls and requests in flight, one per process

varsFilter == <<fIn, fOut>>
varsPipeline == <<pIn, pOut>>
varsSql == <<sIn, sOut>>
varsParams == <<qIn, qOut>>
varsTarget == <<dIn, dOut>>
varsQueryParams == <<paramsIn, paramsOut>>
varsSanitizers == <<fIn, fOut, pIn, pOut, sIn, sOut, qIn, qOut>>
varsRegistry == <<connections, pools>>
varsLimiter == <<rateLimit, now, admitLog>>
varsService == <<connections, pools, clients, rateLimit, now, admitLog, proc>>
vars == <<fIn, fOut, pIn, pOut, sIn, sOut, qIn, qOut, dIn, dOut, paramsIn, paramsOut, connections, pools, clients, rateLimit, now, admitLog, proc>>

(***************************************************************************)
(* JSON values as they arrive from request.json(): a scalar, an ordered    *)
(* map (own properties in Object.entries order, keys unique) or an array.  *)
(***************************************************************************)
Val(s) == [kind |-> "val", val |-> s]
Obj(entries) == [kind |-> "obj", val |-> entries]
Arr(items) == [kind |-> "arr", val |-> items]
NoValue == [kind |-> "none", val |-> ""]

\* Outcome of a function that either returns a value or throws an Error.
Pending == [status |-> "pending", value |-> NoValue, error |-> ""]
Return(v) == [status |-> "ok", value |-> v, error |-> ""]
Throw(msg) == [status |-> "error", value |-> NoValue, error |-> msg]

(***************************************************************************)
(* src/lib/mongodb/sanitize.ts                                             *)
(***************************************************************************)
ALLOWED_QUERY_OPERATORS ==
    {"$eq", "$ne", "$gt", "$gte", "$lt", "$lte",
     "$in", "$nin", "$and", "$or", "$not", "$nor",
     "$exists", "$type", "$regex", "$options",
     "$size", "$mod", "$elemMatch"}

ALLOWED_AGGREGATION_STAGES ==
    {"$match", "$group", "$project", "$sort", "$limit", "$skip",
     "$unwind", "$lookup", "$facet", "$bucket", "$bucketAuto",
     "$count", "$addFields", "$replaceRoot", "$sample", "$redact"}

DANGEROUS_OPERATORS ==
    {"$where", "$function", "$accumulator", "$eval",
     "$expr", "$jsonSchema", "$mod"}

\* key.startsWith('$'): the keys of the model are listed with their answer,
\* TLC strings cannot be indexed.
DollarKeys ==
    ALLOWED_QUERY_OPERATORS \cup ALLOWED_AGGREGATION_STAGES
        \cup DANGEROUS_OPERATORS \cup {"$foo", "$out"}
StartsWithDollar(key) == key \in DollarKeys

MaxQueryDepth == 10

DepthExceededOffByOne(depth) == depth >= MaxQueryDepth
\* if (depth > 10) throw new Error('Query too deep')
DepthExceeded(depth) == depth > MaxQueryDepth

OperatorError(key) == "Operator " \o key \o " is not allowed"

\* typeof item === 'object' && item !== null
IsObjectLike(v) == v.kind \in {"obj", "arr"}

\* an assignment that stores every value as a one-element list
AssignPropertyAsList(sanitized, key, value) ==
    IF key = "__proto__" THEN sanitized
    ELSE Append(sanitized, <<key, Arr(<<value>>)>>)

\* sanitized[key] = value on a fresh {} : every key becomes an own property
\* except "__proto__", whose assignment runs the Object.prototype.__proto__
\* setter (it sets the prototype, or does nothing for a scalar) and creates
\* no own property.
AssignProperty(sanitized, key, value) ==
    IF key = "__proto__" THEN sanitized
    ELSE Append(sanitized, <<key, value>>)

RECURSIVE sanitizeQuery(_, _)
RECURSIVE sanitizeItems(_, _)
RECURSIVE sanitizeEntries(_, _, _)

\* obj.map(item => ...) : elements in order, the first throw ends the map.
sanitizeItems(items, depth) ==
    IF items = <<>> THEN Return(Arr(<<>>))
    ELSE LET item == Head(items)
             first == IF IsObjectLike(item)
                      THEN sanitizeQuery(item, depth + 1)
                      ELSE Return(item)
         IN  IF first.status # "ok" THEN first
             ELSE LET rest == sanitizeItems(Tail(items), depth)
                  IN  IF rest.status # "ok" THEN rest
                      ELSE Return(Arr(<<first.value>> \o rest.value.val))

\* for (const [key, value] of Object.entries(obj)) { ... }
sanitizeEntries(entries, depth, sanitized) ==
    IF entries = <<>> THEN Return(Obj(sanitized))
    ELSE LET key == Head(entries)[1]
             value == Head(entries)[2]
         IN  IF key \in DANGEROUS_OPERATORS THEN Throw(OperatorError(key))
             ELSE IF StartsWithDollar(key) /\ key \notin ALLOWED_QUERY_OPERATORS
                  THEN Throw(OperatorError(key))
             ELSE LET inner == sanitizeQuery(value, depth + 1)
                  IN  IF inner.status # "ok" THEN inner
                      ELSE sanitizeEntries(Tail(entries), depth,
                               AssignProperty(sanitized, key, inner.value))

sanitizeQuery(obj, depth) ==
    IF DepthExceeded(depth) THEN Throw("Query too deep")
    ELSE IF obj.kind = "val" THEN Return(obj)
    ELSE IF obj.kind = "arr" THEN sanitizeItems(obj.val, depth)
    ELSE sanitizeEntries(obj.val, depth, <<>>)

(***************************************************************************)
(* Bounded filters: a small core, wrapped MaxNest times or fewer, inside   *)
(* an optional outer object that puts a sibling key before or after it.    *)
(***************************************************************************)
MaxNest == 12

FilterKeys == {"a", "$eq", "$where", "$mod", "$foo", "__proto__"}

FilterCores ==
    {Val("1"), Obj(<<>>), Arr(<<>>), Arr(<<Val("1")>>)}
    \cup {Obj(<< <<k, Val("1")>> >>) : k \in FilterKeys}
    \cup {Obj(<< <<k1, Val("1")>>, <<k2, Val("2")>> >>) :
             <<k1, k2>> \in {kk \in FilterKeys \X FilterKeys : kk[1] # kk[2]}}
    \cup {Arr(<<Val("1"), Obj(<< <<k, Val("1")>> >>)>>) : k \in FilterKeys}
    \cup {Arr(<<Arr(<<Obj(<< <<k, Val("1")>> >>)>>)>>) : k \in FilterKeys}
    \cup {Obj(<< <<"__proto__", Obj(<< <<k, Val("1")>> >>)>> >>) : k \in FilterKeys}

WrapKinds == {"field", "operator", "array"}

Wrap(kind, v) ==
    CASE kind = "field" -> Obj(<< <<"a", v>> >>)
      [] kind = "operator" -> Obj(<< <<"$and", Arr(<<v>>)>> >>)
      [] kind = "array" -> Arr(<<v>>)

RECURSIVE Nest(_, _, _)
Nest(kind, n, v) == IF n = 0 THEN v ELSE Nest(kind, n - 1, Wrap(kind, v))

OuterKinds == {"none", "deniedFirst", "deniedLast"}

Outer(kind, v) ==
    CASE kind = "none" -> v
      [] kind = "deniedFirst" -> Obj(<< <<"$where", Val("1==1")>>, <<"a", v>> >>)
      [] kind = "deniedLast" -> Obj(<< <<"a", v>>, <<"$where", Val("1==1")>> >>)

FilterInputs ==
    {Outer(o, Nest(w, n, c)) :
        o \in OuterKinds, w \in WrapKinds, n \in 0..MaxNest, c \in FilterCores}

\* one call sanitizeQuery(filter): depth defaults to 0
SanitizeFilter ==
    /\ fOut.status = "pending"
    /\ fOut' = sanitizeQuery(fIn, 0)
    /\ UNCHANGED fIn

(***************************************************************************)
(* What the claims about sanitizeQuery speak of, read off the filter       *)
(* itself: the values and keys of a filter in depth-first key order.       *)
(***************************************************************************)
RECURSIVE Visits(_, _)
RECURSIVE VisitsOfItems(_, _)
RECURSIVE VisitsOfEntries(_, _)

\* The walk of a filter: "enter" for every value the recursion is called on
\* (the root, every property value, every object or array element of an
\* array), "key" for every object key, each with its nesting level.
Visits(v, level) ==
    <<[what |-> "enter", level |-> level, key |-> ""]>> \o
    (IF v.kind = "arr" THEN VisitsOfItems(v.val, level)
     ELSE IF v.kind = "obj" THEN VisitsOfEntries(v.val, level)
     ELSE <<>>)

VisitsOfItems(items, level) ==
    IF items = <<>> THEN <<>>
    ELSE (IF IsObjectLike(Head(items)) THEN Visits(Head(items), level + 1) ELSE <<>>)
         \o VisitsOfItems(Tail(items), level)

VisitsOfEntries(entries, level) ==
    IF entries = <<>> THEN <<>>
    ELSE <<[what |-> "key", level |-> level, key |-> Head(entries)[1]]>>
         \o Visits(Head(entries)[2], level + 1)
         \o VisitsOfEntries(Tail(entries), level)

SeqMax(s) == IF s = <<>> THEN 0
             ELSE CHOOSE m \in {s[i] : i \in DOMAIN s} : \A i \in DOMAIN s : s[i] <= m

\* Nesting depth of a filter: the deepest level of a visited value.
VisitDepth(v) == LET w == Visits(v, 0) IN SeqMax([i \in DOMAIN w |-> w[i].level])

\* Every key of every object of the filter, at any level.
KeysOf(v) == LET w == Visits(v, 0) IN {w[i].key : i \in {j \in DOMAIN w : w[j].what = "key"}}

\* The allow/deny policy for one key, as the specification words it.
KeyPermitted(key) ==
    StartsWithDollar(key) =>
        (key \in ALLOWED_QUERY_OPERATORS /\ key \notin DANGEROUS_OPERATORS)

IsFieldKeyVisit(e) == e.what = "key" /\ ~StartsWithDollar(e.key)
\* The ordinary field names of a value, in order, with their levels.
FieldKeys(v) == SelectSeq(Visits(v, 0), IsFieldKeyVisit)

IsViolation(e) ==
    \/ e.what = "enter" /\ e.level > MaxQueryDepth
    \/ e.what = "key" /\ ~KeyPermitted(e.key)
ViolationError(e) ==
    IF e.what = "enter" THEN "Query too deep" ELSE OperatorError(e.key)
\* The error of the first violation in depth-first key order ("" if none).
FirstViolationError(v) ==
    LET bad == SelectSeq(Visits(v, 0), IsViolation)
    IN  IF bad = <<>> THEN "" ELSE ViolationError(bad[1])

(***************************************************************************)
(* C5 (as claimed): a filter within the depth limit is accepted exactly    *)
(* when every key starting with '$', at every level and inside arrays, is  *)
(* allow-listed and not deny-listed; a filter with a denied key is always  *)
(* rejected; an operator rejection names an offending key of the filter;   *)
(* ordinary field names never reject and are kept verbatim in the result.  *)
(* The code drops the field name "__proto__" from the result.              *)
(***************************************************************************)
C5_FilterOperatorPolicy ==
    fOut.status # "pending" =>
        /\ VisitDepth(fIn) <= MaxQueryDepth =>
              (fOut.status = "ok" <=> \A k \in KeysOf(fIn) : KeyPermitted(k))
        /\ KeysOf(fIn) \cap DANGEROUS_OPERATORS # {} => fOut.status = "error"
        /\ (fOut.status = "error" /\ fOut.error # "Query too deep") =>
              \E k \in KeysOf(fIn) : ~KeyPermitted(k) /\ fOut.error = OperatorError(k)
        /\ fOut.status = "ok" => FieldKeys(fOut.value) = FieldKeys(fIn)

(***************************************************************************)
(* C6 (as claimed): every filter nested deeper than 10 is rejected with    *)
(* 'Query too deep' whatever it contains, and no filter within that depth  *)
(* is rejected for depth.                                                  *)
(***************************************************************************)
C6_DepthErrorRegardlessOfContent ==
    fOut.status # "pending" =>
        /\ VisitDepth(fIn) > MaxQueryDepth =>
              (fOut.status = "error" /\ fOut.error = "Query too deep")
        /\ VisitDepth(fIn) <= MaxQueryDepth => fOut.error # "Query too deep"

(***************************************************************************)
(* C6 (amended): every filter with a visited value deeper than level 10    *)
(* is rejected, with the error of the first violation in depth-first key   *)
(* order: 'Query too deep', unless a disallowed operator key comes before  *)
(* the first too-deep value, and then that key's operator error. A filter  *)
(* with no visited value deeper than level 10 is never rejected for depth. *)
(***************************************************************************)
C6_DeepFilterRejectedFirstViolation ==
    fOut.status # "pending" =>
        /\ VisitDepth(fIn) > MaxQueryDepth =>
              (fOut.status = "error" /\ fOut.error = FirstViolationError(fIn))
        /\ VisitDepth(fIn) <= MaxQueryDepth => fOut.error # "Query too deep"

\* C6 witness: a filter one level too deep has been rejected for its depth.
C6_Witness ==
    /\ VisitDepth(fIn) = MaxQueryDepth + 1
    /\ fOut.status = "error"
    /\ fOut.error = "Query too deep"

(***************************************************************************)
(* sanitizePipeline: src/lib/mongodb/sanitize.ts                           *)
(***************************************************************************)
DeniedStageError(operator) == "Operator " \o operator \o " is not allowed in aggregation"
UnknownStageError(operator) == "Aggregation stage " \o operator \o " is not allowed"

StageOperatorErrorDenyListOnly(operator) ==
    IF operator \in DANGEROUS_OPERATORS THEN DeniedStageError(operator) ELSE ""
\* The two checks made on one key of one stage: the error thrown, "" if none.
StageOperatorError(operator) ==
    IF operator \in DANGEROUS_OPERATORS THEN DeniedStageError(operator)
    ELSE IF operator \notin ALLOWED_AGGREGATION_STAGES THEN UnknownStageError(operator)
    ELSE ""

RECURSIVE sanitizeStageKeys(_)
\* for (const operator of Object.keys(stage)) { ... }
sanitizeStageKeys(entries) ==
    IF entries = <<>> THEN ""
    ELSE LET err == StageOperatorError(Head(entries)[1])
         IN  IF err # "" THEN err ELSE sanitizeStageKeys(Tail(entries))

RECURSIVE sanitizeStages(_)
\* for (const stage of pipeline) { ... }
sanitizeStages(stages) ==
    IF stages = <<>> THEN ""
    ELSE LET err == sanitizeStageKeys(Head(stages).val)
         IN  IF err # "" THEN err ELSE sanitizeStages(Tail(stages))

\* The pipeline itself is returned, the same array.
sanitizePipeline(pipeline) ==
    LET err == sanitizeStages(pipeline.val)
    IN  IF err # "" THEN Throw(err) ELSE Return(pipeline)

MaxStages == 3

PipelineStages ==
    { Obj(<<>>),
      Obj(<< <<"$match", Obj(<< <<"a", Val("1")>> >>)>> >>),
      Obj(<< <<"$match", Obj(<< <<"$where", Val("1==1")>> >>)>> >>),
      Obj(<< <<"$addFields", Obj(<< <<"x", Obj(<< <<"$function", Val("f")>> >>)>> >>)>> >>),
      Obj(<< <<"$out", Val("t")>> >>),
      Obj(<< <<"$where", Val("1==1")>> >>),
      Obj(<< <<"$mod", Val("1")>> >>),
      Obj(<< <<"a", Val("1")>> >>),
      Obj(<< <<"$match", Obj(<<>>)>>, <<"$sort", Obj(<< <<"a", Val("1")>> >>)>> >>),
      Obj(<< <<"$limit", Val("5")>>, <<"$out", Val("t")>> >>) }

RECURSIVE SeqsUpTo(_, _)
\* Every sequence of at most n elements of S.
SeqsUpTo(S, n) ==
    IF n = 0 THEN {<<>>}
    ELSE LET shorter == SeqsUpTo(S, n - 1)
         IN  shorter \cup {Append(q, x) : q \in shorter, x \in S}

PipelineInputs == {Arr(q) : q \in SeqsUpTo(PipelineStages, MaxStages)}

SanitizePipeline ==
    /\ pOut.status = "pending"
    /\ pOut' = sanitizePipeline(pIn)
    /\ UNCHANGED pIn

(***************************************************************************)
(* What the pipeline claims speak of: the keys of each stage, in order.    *)
(***************************************************************************)
StageKeys(stage) == [i \in DOMAIN stage.val |-> stage.val[i][1]]
StageKeySet(stage) == {stage.val[i][1] : i \in DOMAIN stage.val}
StagePermitted(operator) ==
    operator \in ALLOWED_AGGREGATION_STAGES /\ operator \notin DANGEROUS_OPERATORS

\* The stage operators of a pipeline in stage order then key order.
RECURSIVE FlattenKeys(_)
FlattenKeys(stages) ==
    IF stages = <<>> THEN <<>>
    ELSE StageKeys(Head(stages)) \o FlattenKeys(Tail(stages))

NotPermittedStage(operator) == ~StagePermitted(operator)
OffendingStages(pipeline) == SelectSeq(FlattenKeys(pipeline.val), NotPermittedStage)

(***************************************************************************)
(* C7 (as claimed): a pipeline is accepted exactly when every stage is a   *)
(* single-key object whose key is allow-listed and not deny-listed; the    *)
(* accepted pipeline is returned unchanged; a rejection names the          *)
(* offending stage operator.                                               *)
(***************************************************************************)
C7_SingleKeyStagesOnly ==
    pOut.status # "pending" =>
        /\ pOut.status = "ok" <=>
              \A i \in DOMAIN pIn.val :
                  /\ Len(pIn.val[i].val) = 1
                  /\ StagePermitted(pIn.val[i].val[1][1])
        /\ pOut.status = "ok" => pOut.value = pIn

(***************************************************************************)
(* C7 (amended): a pipeline is accepted exactly when every key of every    *)
(* stage is allow-listed and not deny-listed, whatever the number of keys  *)
(* of a stage (none, one or several); the verdict and the error are a      *)
(* function of the stages' top-level keys alone; an accepted pipeline is   *)
(* returned unchanged; a rejection names the first offending key in stage  *)
(* order then key order.                                                   *)
(***************************************************************************)
C7_PipelineVerdictFromStageKeys ==
    pOut.status # "pending" =>
        LET bad == OffendingStages(pIn)
        IN  /\ pOut.status = "ok" <=> bad = <<>>
            /\ pOut.status = "ok" => pOut.value = pIn
            /\ pOut.status = "error" =>
                  pOut.error = (IF bad[1] \in DANGEROUS_OPERATORS
                                THEN DeniedStageError(bad[1])
                                ELSE UnknownStageError(bad[1]))

\* C7 witness: an accepted pipeline holding a stage of two keys and a stage
\* whose nested expression uses a denied operator.
C7_Witness ==
    /\ pOut.status = "ok"
    /\ \E i \in DOMAIN pIn.val : Len(pIn.val[i].val) = 2
    /\ \E i \in DOMAIN pIn.val :
          /\ Len(pIn.val[i].val) = 1
          /\ KeysOf(pIn.val[i].val[1][2]) \cap DANGEROUS_OPERATORS # {}

(***************************************************************************)
(* src/lib/postgresql/sanitize.ts.  A statement is a sequence of           *)
(* characters.  Error messages are rendered in ASCII; the keyword or the   *)
(* pattern source they quote is kept.                                      *)
(***************************************************************************)
Sql(text) == [kind |-> "sql", val |-> text]

DANGEROUS_KEYWORDS ==
    << [name |-> "DROP", chars |-> <<"D", "R", "O", "P">>],
       [name |-> "DELETE", chars |-> <<"D", "E", "L", "E", "T", "E">>],
       [name |-> "INSERT", chars |-> <<"I", "N", "S", "E", "R", "T">>],
       [name |-> "UPDATE", chars |-> <<"U", "P", "D", "A", "T", "E">>],
       [name |-> "CREATE", chars |-> <<"C", "R", "E", "A", "T", "E">>],
       [name |-> "ALTER", chars |-> <<"A", "L", "T", "E", "R">>],
       [name |-> "TRUNCATE", chars |-> <<"T", "R", "U", "N", "C", "A", "T", "E">>],
       [name |-> "GRANT", chars |-> <<"G", "R", "A", "N", "T">>],
       [name |-> "REVOKE", chars |-> <<"R", "E", "V", "O", "K", "E">>],
       [name |-> "EXECUTE", chars |-> <<"E", "X", "E", "C", "U", "T", "E">>],
       [name |-> "EXEC", chars |-> <<"E", "X", "E", "C">>],
       [name |-> "CALL", chars |-> <<"C", "A", "L", "L">>],
       [name |-> "COPY", chars |-> <<"C", "O", "P", "Y">>],
       [name |-> "VACUUM", chars |-> <<"V", "A", "C", "U", "U", "M">>],
       [name |-> "ANALYZE", chars |-> <<"A", "N", "A", "L", "Y", "Z", "E">>],
       [name |-> "REINDEX", chars |-> <<"R", "E", "I", "N", "D", "E", "X">>],
       [name |-> "CLUSTER", chars |-> <<"C", "L", "U", "S", "T", "E", "R">>],
       [name |-> "COMMENT", chars |-> <<"C", "O", "M", "M", "E", "N", "T">>],
       [name |-> "SECURITY", chars |-> <<"S", "E", "C", "U", "R", "I", "T", "Y">>],
       [name |-> "OWNER", chars |-> <<"O", "W", "N", "E", "R">>],
       [name |-> "TABLESPACE", chars |-> <<"T", "A", "B", "L", "E", "S", "P", "A", "C", "E">>],
       [name |-> "LOCK", chars |-> <<"L", "O", "C", "K">>],
       [name |-> "LOAD", chars |-> <<"L", "O", "A", "D">>],
       [name |-> "LISTEN", chars |-> <<"L", "I", "S", "T", "E", "N">>],
       [name |-> "NOTIFY", chars |-> <<"N", "O", "T", "I", "F", "Y">>],
       [name |-> "PREPARE", chars |-> <<"P", "R", "E", "P", "A", "R", "E">>],
       [name |-> "DEALLOCATE", chars |-> <<"D", "E", "A", "L", "L", "O", "C", "A", "T", "E">>],
       [name |-> "DISCARD", chars |-> <<"D", "I", "S", "C", "A", "R", "D">>],
       [name |-> "DO", chars |-> <<"D", "O">>],
       [name |-> "CHECKPOINT", chars |-> <<"C", "H", "E", "C", "K", "P", "O", "I", "N", "T">>],
       [name |-> "FREESPACE", chars |-> <<"F", "R", "E", "E", "S", "P", "A", "C", "E">>],
       [name |-> "REINDEX", chars |-> <<"R", "E", "I", "N", "D", "E", "X">>] >>

ALLOWED_STATEMENTS ==
    << [name |-> "SELECT", chars |-> <<"S", "E", "L", "E", "C", "T">>],
       [name |-> "WITH", chars |-> <<"W", "I", "T", "H">>],
       [name |-> "EXPLAIN", chars |-> <<"E", "X", "P", "L", "A", "I", "N">>],
       [name |-> "SHOW", chars |-> <<"S", "H", "O", "W">>],
       [name |-> "BEGIN", chars |-> <<"B", "E", "G", "I", "N">>],
       [name |-> "COMMIT", chars |-> <<"C", "O", "M", "M", "I", "T">>],
       [name |-> "ROLLBACK", chars |-> <<"R", "O", "L", "L", "B", "A", "C", "K">>],
       [name |-> "SET", chars |-> <<"S", "E", "T">>],
       [name |-> "DECLARE", chars |-> <<"D", "E", "C", "L", "A", "R", "E">>],
       [name |-> "FETCH", chars |-> <<"F", "E", "T", "C", "H">>],
       [name |-> "CLOSE", chars |-> <<"C", "L", "O", "S", "E">>] >>

\* Each regular expression by its shape: /;\s*A/i (semi), /\bA\s*\(/i (call),
\* /\bA\s+B/i (pair), /\bcopy\s+.*\s+from\s+program/i (copy); source is
\* RegExp.source, which the error message quotes.
DANGEROUS_PATTERNS ==
    << [shape |-> "semi", a |-> <<"D", "R", "O", "P">>, b |-> <<>>, source |-> ";\\s*DROP"],
       [shape |-> "semi", a |-> <<"D", "E", "L", "E", "T", "E">>, b |-> <<>>, source |-> ";\\s*DELETE"],
       [shape |-> "semi", a |-> <<"I", "N", "S", "E", "R", "T">>, b |-> <<>>, source |-> ";\\s*INSERT"],
       [shape |-> "semi", a |-> <<"U", "P", "D", "A", "T", "E">>, b |-> <<>>, source |-> ";\\s*UPDATE"],
       [shape |-> "semi", a |-> <<"C", "R", "E", "A", "T", "E">>, b |-> <<>>, source |-> ";\\s*CREATE"],
       [shape |-> "semi", a |-> <<"A", "L", "T", "E", "R">>, b |-> <<>>, source |-> ";\\s*ALTER"],
       [shape |-> "semi", a |-> <<"T", "R", "U", "N", "C", "A", "T", "E">>, b |-> <<>>, source |-> ";\\s*TRUNCATE"],
       [shape |-> "semi", a |-> <<"E", "X", "E", "C">>, b |-> <<>>, source |-> ";\\s*EXEC"],
       [shape |-> "call", a |-> <<"P", "G", "_", "S", "L", "E", "E", "P">>, b |-> <<>>, source |-> "\\bpg_sleep\\s*\\("],
       [shape |-> "pair", a |-> <<"W", "A", "I", "T", "F", "O", "R">>, b |-> <<"D", "E", "L", "A", "Y">>, source |-> "\\bwaitfor\\s+delay"],
       [shape |-> "pair", a |-> <<"I", "N", "T", "O">>, b |-> <<"O", "U", "T", "F", "I", "L", "E">>, source |-> "\\binto\\s+outfile"],
       [shape |-> "pair", a |-> <<"I", "N", "T", "O">>, b |-> <<"D", "U", "M", "P", "F", "I", "L", "E">>, source |-> "\\binto\\s+dumpfile"],
       [shape |-> "call", a |-> <<"L", "O", "A", "D", "_", "F", "I", "L", "E">>, b |-> <<>>, source |-> "\\bload_file\\s*\\("],
       [shape |-> "copy", a |-> <<"C", "O", "P", "Y">>, b |-> <<>>, source |-> "\\bcopy\\s+.*\\s+from\\s+program"] >>

LowerLetters ==
    <<"a", "b", "c", "d", "e", "f", "g", "h", "i", "j", "k", "l", "m",
      "n", "o", "p", "q", "r", "s", "t", "u", "v", "w", "x", "y", "z">>
UpperLetters ==
    <<"A", "B", "C", "D", "E", "F", "G", "H", "I", "J", "K", "L", "M",
      "N", "O", "P", "Q", "R", "S", "T", "U", "V", "W", "X", "Y", "Z">>
LowerSet == {LowerLetters[i] : i \in DOMAIN LowerLetters}
UpperSet == {UpperLetters[i] : i \in DOMAIN UpperLetters}
DigitSet == {"0", "1", "2", "3", "4", "5", "6", "7", "8", "9"}
UpperOf == [c \in LowerSet |->
               UpperLetters[CHOOSE i \in DOMAIN LowerLetters : LowerLetters[i] = c]]

\* String.prototype.toUpperCase, on the characters of the model
toUpperCase(text) ==
    [i \in 1..Len(text) |-> IF text[i] \in LowerSet THEN UpperOf[text[i]] ELSE text[i]]

\* \s of a regular expression, and the characters trim() strips
IsWhitespace(c) == c \in {" ", "\t", "\n", "\r"}
\* what . of a regular expression does not match
IsLineTerminator(c) == c \in {"\n", "\r"}
\* \w of a regular expression
IsWordChar(c) == c = "_" \/ c \in DigitSet \/ c \in LowerSet \/ c \in UpperSet

SetMin(S) == CHOOSE m \in S : \A x \in S : m <= x
SetMax(S) == CHOOSE m \in S : \A x \in S : x <= m

\* String.prototype.trim
trim(text) ==
    LET keep == {i \in 1..Len(text) : ~IsWhitespace(text[i])}
    IN  IF keep = {} THEN <<>> ELSE SubSeq(text, SetMin(keep), SetMax(keep))

\* String.prototype.indexOf for one character: 0-based, -1 when absent
indexOf(text, c) ==
    LET hits == {i \in 1..Len(text) : text[i] = c}
    IN  IF hits = {} THEN -1 ELSE SetMin(hits) - 1

\* String.prototype.includes for one character
includes(text, c) == \E i \in 1..Len(text) : text[i] = c

\* String.prototype.startsWith
startsWith(text, prefix) ==
    Len(prefix) <= Len(text) /\ SubSeq(text, 1, Len(prefix)) = prefix

\* The literal lit matches text at position i (1-based).
MatchAt(text, i, lit) ==
    /\ i >= 1
    /\ i + Len(lit) - 1 <= Len(text)
    /\ \A k \in 1..Len(lit) : text[i + k - 1] = lit[k]

\* \b of a regular expression, between positions i - 1 and i
WordBoundary(text, i) ==
    (i > 1 /\ i - 1 <= Len(text) /\ IsWordChar(text[i - 1]))
        # (i >= 1 /\ i <= Len(text) /\ IsWordChar(text[i]))

RECURSIVE SkipWhitespace(_, _)
\* \s* before a non-space character: the first position from i on that holds no whitespace
SkipWhitespace(text, i) ==
    IF i <= Len(text) /\ IsWhitespace(text[i]) THEN SkipWhitespace(text, i + 1) ELSE i

AllWhitespace(text, from, to) == \A k \in from..to : IsWhitespace(text[k])
NoLineTerminator(text, from, to) == \A k \in from..to : ~IsLineTerminator(text[k])

\* pattern.test(sql) for one entry of DANGEROUS_PATTERNS; upper is sql
\* upper-cased, which is how the i flag compares ASCII letters.
PatternTest(p, sql, upper) ==
    CASE p.shape = "semi" ->
            \E i \in 1..Len(sql) :
                sql[i] = ";" /\ MatchAt(upper, SkipWhitespace(sql, i + 1), p.a)
      [] p.shape = "call" ->
            \E i \in 1..Len(sql) :
                /\ MatchAt(upper, i, p.a)
                /\ WordBoundary(sql, i)
                /\ LET j == SkipWhitespace(sql, i + Len(p.a))
                   IN  j <= Len(sql) /\ sql[j] = "("
      [] p.shape = "pair" ->
            \E i \in 1..Len(sql) :
                /\ MatchAt(upper, i, p.a)
                /\ WordBoundary(sql, i)
                /\ LET k == i + Len(p.a)
                   IN  /\ k <= Len(sql)
                       /\ IsWhitespace(sql[k])
                       /\ MatchAt(upper, SkipWhitespace(sql, k), p.b)
      [] p.shape = "copy" ->
            \E i \in 1..Len(sql) :
                /\ MatchAt(upper, i, p.a)
                /\ WordBoundary(sql, i)
                /\ \E f \in (i + 6)..Len(sql) :
                      /\ MatchAt(upper, f, <<"F", "R", "O", "M">>)
                      /\ \E p0 \in (i + 5)..(f - 1), q \in (i + 5)..(f - 1) :
                            /\ p0 <= q
                            /\ AllWhitespace(sql, i + 4, p0 - 1)
                            /\ NoLineTerminator(sql, p0, q - 1)
                            /\ AllWhitespace(sql, q, f - 1)
                      /\ f + 4 <= Len(sql)
                      /\ IsWhitespace(sql[f + 4])
                      /\ MatchAt(upper, SkipWhitespace(sql, f + 4),
                                 <<"P", "R", "O", "G", "R", "A", "M">>)

\* containsDangerousPattern: the first pattern of the list that matches
containsDangerousPattern(sql) ==
    LET upper == toUpperCase(sql)
        hits == {i \in DOMAIN DANGEROUS_PATTERNS :
                    PatternTest(DANGEROUS_PATTERNS[i], sql, upper)}
    IN  IF hits = {} THEN [dangerous |-> FALSE, pattern |-> ""]
        ELSE [dangerous |-> TRUE, pattern |-> DANGEROUS_PATTERNS[SetMin(hits)].source]

KeywordScanTextCaseSensitive(sql) == sql
\* const upperSql = sql.toUpperCase(), tested with a regular expression
\* that carries the i flag
KeywordScanText(sql) == toUpperCase(sql)

\* new RegExp(`\\b${keyword}\\b`, 'i').test(upperSql)
KeywordRegexTest(upperSql, keyword) ==
    \E i \in 1..Len(upperSql) :
        /\ MatchAt(upperSql, i, keyword)
        /\ WordBoundary(upperSql, i)
        /\ WordBoundary(upperSql, i + Len(keyword))

\* containsDangerousKeyword: the first keyword of the list that matches
containsDangerousKeyword(sql) ==
    LET upperSql == KeywordScanText(sql)
        hits == {i \in DOMAIN DANGEROUS_KEYWORDS :
                    KeywordRegexTest(upperSql, DANGEROUS_KEYWORDS[i].chars)}
    IN  IF hits = {} THEN [dangerous |-> FALSE, keyword |-> ""]
        ELSE [dangerous |-> TRUE, keyword |-> DANGEROUS_KEYWORDS[SetMin(hits)].name]

\* startsWithAllowedStatement
startsWithAllowedStatement(sql) ==
    LET trimmed == trim(sql)
        upper == toUpperCase(trimmed)
    IN  \E i \in DOMAIN ALLOWED_STATEMENTS : startsWith(upper, ALLOWED_STATEMENTS[i].chars)

DefaultMaxLength == 100000

LengthError == "SQL exceeds the maximum length"
MultiStatementError == "multiple SQL statements are not allowed"
PatternError(source) == "dangerous SQL pattern: " \o source
KeywordError(keyword) == "read-only mode does not allow " \o keyword
StatementError == "read-only mode allows only the allow-listed statements"

HasSecondStatementUntrimmed(sql) ==
    LET firstSemicolon == indexOf(sql, ";")
    IN  firstSemicolon # -1 /\ firstSemicolon # Len(sql) - 1
\* step 2, inside if (!allowMultipleStatements && sql.includes(';'))
HasSecondStatement(sql) ==
    LET trimmed == trim(sql)
        firstSemicolon == indexOf(trimmed, ";")
    IN  firstSemicolon # -1 /\ firstSemicolon # Len(trimmed) - 1

\* the keyword scan placed before the pattern check
sanitizeSqlQueryKeywordsFirst(sql, options) ==
    IF Len(sql) > options.maxLength THEN Throw(LengthError)
    ELSE IF ~options.allowMultipleStatements /\ includes(sql, ";") /\ HasSecondStatement(sql)
         THEN Throw(MultiStatementError)
    ELSE LET patternCheck == containsDangerousPattern(sql)
             keywordCheck ==
                 IF ~options.allowWrite THEN containsDangerousKeyword(sql)
                 ELSE [dangerous |-> FALSE, keyword |-> ""]
         IN  IF keywordCheck.dangerous THEN Throw(KeywordError(keywordCheck.keyword))
             ELSE IF patternCheck.dangerous THEN Throw(PatternError(patternCheck.pattern))
             ELSE IF ~startsWithAllowedStatement(sql) /\ ~options.allowWrite
                  THEN Throw(StatementError)
             ELSE Return(Sql(sql))

sanitizeSqlQuery(sql, options) ==
    IF Len(sql) > options.maxLength THEN Throw(LengthError)
    ELSE IF ~options.allowMultipleStatements /\ includes(sql, ";") /\ HasSecondStatement(sql)
         THEN Throw(MultiStatementError)
    ELSE LET patternCheck == containsDangerousPattern(sql)
         IN  IF patternCheck.dangerous THEN Throw(PatternError(patternCheck.pattern))
             ELSE LET keywordCheck ==
                          IF ~options.allowWrite THEN containsDangerousKeyword(sql)
                          ELSE [dangerous |-> FALSE, keyword |-> ""]
                  IN  IF keywordCheck.dangerous THEN Throw(KeywordError(keywordCheck.keyword))
                      ELSE IF ~startsWithAllowedStatement(sql) /\ ~options.allowWrite
                           THEN Throw(StatementError)
                      ELSE Return(Sql(sql))

(***************************************************************************)
(* Bounded statements: at most MaxFragments fragments, concatenated.       *)
(***************************************************************************)
MaxFragments == 3
SmallMaxLength == 10

FragSelect1 == <<"S", "E", "L", "E", "C", "T", " ", "1">>
FragSemicolon == <<";">>
FragSpace == <<" ">>
FragDropTable == <<" ", "D", "R", "O", "P", " ", "T", "A", "B", "L", "E", " ", "x">>
FragLowerSelect == <<"s", "e", "l", "e", "c", "t", " ", "a">>
FragUpdate == <<" ", "U", "p", "d", "a", "t", "e", " ", "t">>
FragUnderscoreDrop == <<"_", "d", "r", "o", "p">>
FragSetup == <<"S", "E", "T", "U", "P", " ", "x">>
FragSleep == <<" ", "p", "g", "_", "s", "l", "e", "e", "p", "(", "1", ")">>

SqlFragments ==
    {FragSelect1, FragSemicolon, FragSpace, FragDropTable, FragLowerSelect, FragUpdate, FragUnderscoreDrop, FragSetup, FragSleep}

RECURSIVE Concat(_)
Concat(parts) == IF parts = <<>> THEN <<>> ELSE Head(parts) \o Concat(Tail(parts))

SqlTexts == {Concat(q) : q \in SeqsUpTo(SqlFragments, MaxFragments)}

\* The options a caller can pass; the defaults are false, false, 100000.
SqlOptions ==
    {[allowWrite |-> w, allowMultipleStatements |-> m, maxLength |-> DefaultMaxLength] :
        w \in BOOLEAN, m \in BOOLEAN}
    \cup {[allowWrite |-> FALSE, allowMultipleStatements |-> FALSE, maxLength |-> SmallMaxLength]}

SqlInputs == {[sql |-> t, options |-> o] : t \in SqlTexts, o \in SqlOptions}
NoSqlInput ==
    [sql |-> <<>>,
     options |-> [allowWrite |-> FALSE, allowMultipleStatements |-> FALSE,
                  maxLength |-> DefaultMaxLength]]

SanitizeSql ==
    /\ sOut.status = "pending"
    /\ sOut' = sanitizeSqlQuery(sIn.sql, sIn.options)
    /\ UNCHANGED sIn

(***************************************************************************)
(* What the claims about sanitizeSqlQuery speak of, read off the           *)
(* statement itself.                                                       *)
(***************************************************************************)
DefaultSqlOptions ==
    [allowWrite |-> FALSE, allowMultipleStatements |-> FALSE, maxLength |-> DefaultMaxLength]

\* 'SELECT 1; DROP TABLE x' and 'SELECT 1;'
StackedExample == FragSelect1 \o FragSemicolon \o FragDropTable
TrailingSemicolonExample == FragSelect1 \o FragSemicolon

\* A ';' that is not the last character of the trimmed statement: some
\* character other than whitespace follows it.
StraySemicolon(text) ==
    \E i \in 1..Len(text) :
        text[i] = ";" /\ \E j \in (i + 1)..Len(text) : ~IsWhitespace(text[j])

RECURSIVE WordEnd(_, _)
\* The last position of the run of word characters that holds position i.
WordEnd(text, i) ==
    IF i < Len(text) /\ IsWordChar(text[i + 1]) THEN WordEnd(text, i + 1) ELSE i

\* The whole words of a text: its maximal runs of word characters.
WordsOf(text) ==
    {SubSeq(text, i, WordEnd(text, i)) :
        i \in {k \in 1..Len(text) :
                  IsWordChar(text[k]) /\ (k = 1 \/ ~IsWordChar(text[k - 1]))}}

\* The entries of DANGEROUS_KEYWORDS that occur as a whole word, in any case.
ContainedKeywords(text) ==
    LET words == WordsOf(toUpperCase(text))
    IN  {i \in DOMAIN DANGEROUS_KEYWORDS : DANGEROUS_KEYWORDS[i].chars \in words}

\* The leading keyword of a statement: the word its trimmed text starts with.
LeadingWord(text) ==
    LET t == toUpperCase(trim(text))
    IN  IF t # <<>> /\ IsWordChar(t[1]) THEN SubSeq(t, 1, WordEnd(t, 1)) ELSE <<>>

AllowedStatementWords == {ALLOWED_STATEMENTS[i].chars : i \in DOMAIN ALLOWED_STATEMENTS}

\* The errors of the checks that run before the keyword scan.
EarlierCheckErrors ==
    {LengthError, MultiStatementError}
        \cup {PatternError(DANGEROUS_PATTERNS[i].source) : i \in DOMAIN DANGEROUS_PATTERNS}

(***************************************************************************)
(* C8: with allowMultipleStatements false the multi-statement check        *)
(* rejects exactly the statements in which a ';' stands anywhere but as    *)
(* the last character of the trimmed statement (for a statement within     *)
(* the length bound the error is the multi-statement error);               *)
(* 'SELECT 1; DROP TABLE x' is rejected, 'SELECT 1;' is accepted; with     *)
(* allowMultipleStatements true the check never rejects.                   *)
(***************************************************************************)
C8_MultiStatementCheck ==
    sOut.status # "pending" =>
        LET sql == sIn.sql
            o == sIn.options
            stray == StraySemicolon(sql)
        IN  /\ (~o.allowMultipleStatements /\ stray) => sOut.status = "error"
            /\ (~o.allowMultipleStatements /\ stray /\ Len(sql) <= o.maxLength)
                   => sOut.error = MultiStatementError
            /\ sOut.error = MultiStatementError => (~o.allowMultipleStatements /\ stray)
            /\ (sql = StackedExample /\ o = DefaultSqlOptions)
                   => sOut.error = MultiStatementError
            /\ (sql = TrailingSemicolonExample /\ o = DefaultSqlOptions)
                   => (sOut.status = "ok" /\ sOut.value = Sql(sql))

\* C8 witness: 'SELECT 1; DROP TABLE x' has been rejected as a second statement.
C8_Witness ==
    /\ sIn.sql = StackedExample
    /\ sIn.options = DefaultSqlOptions
    /\ sOut.error = MultiStatementError

(***************************************************************************)
(* C9 (as claimed): in read-only mode every accepted statement has an      *)
(* allow-listed keyword as its leading keyword; a statement whose leading  *)
(* keyword is anything else is rejected.  The code tests a prefix, so      *)
(* 'SETUP x' passes as if it were a SET statement.                         *)
(***************************************************************************)
C9_LeadingKeywordAllowListed ==
    (sOut.status # "pending" /\ ~sIn.options.allowWrite) =>
        /\ sOut.status = "ok" => LeadingWord(sIn.sql) \in AllowedStatementWords
        /\ LeadingWord(sIn.sql) \notin AllowedStatementWords => sOut.status = "error"

(***************************************************************************)
(* C10 (as claimed): in read-only mode every statement that contains a     *)
(* keyword of the list as a whole word, in any letter case, is rejected    *)
(* with an error that names that keyword; with allowWrite true the         *)
(* keyword scan never rejects.                                             *)
(***************************************************************************)
C10_KeywordAlwaysNamed ==
    sOut.status # "pending" =>
        LET contained == ContainedKeywords(sIn.sql)
        IN  /\ (~sIn.options.allowWrite /\ contained # {}) =>
                  /\ sOut.status = "error"
                  /\ \E i \in contained :
                        sOut.error = KeywordError(DANGEROUS_KEYWORDS[i].name)
            /\ sIn.options.allowWrite =>
                  \A i \in DOMAIN DANGEROUS_KEYWORDS :
                      sOut.error # KeywordError(DANGEROUS_KEYWORDS[i].name)

(***************************************************************************)
(* C10 (amended): in read-only mode every statement that contains a        *)
(* keyword of the list as a whole word, in any letter case, is rejected;   *)
(* the error is that of an earlier check (length, multi-statement,         *)
(* dangerous pattern) when one of them fails, and otherwise names the      *)
(* first keyword of the list that the statement contains.  A keyword       *)
(* error only ever names a keyword the statement contains, and with        *)
(* allowWrite true the keyword scan never rejects.                         *)
(***************************************************************************)
C10_KeywordRejectedFirstCheckWins ==
    sOut.status # "pending" =>
        LET contained == ContainedKeywords(sIn.sql)
        IN  /\ (~sIn.options.allowWrite /\ contained # {}) =>
                  /\ sOut.status = "error"
                  /\ \/ sOut.error \in EarlierCheckErrors
                     \/ sOut.error = KeywordError(DANGEROUS_KEYWORDS[SetMin(contained)].name)
            /\ \A i \in DOMAIN DANGEROUS_KEYWORDS :
                  sOut.error = KeywordError(DANGEROUS_KEYWORDS[i].name) =>
                      /\ ~sIn.options.allowWrite
                      /\ \E j \in contained :
                            DANGEROUS_KEYWORDS[j].name = DANGEROUS_KEYWORDS[i].name

\* C10 witness: a read-only statement with a mixed-case keyword has been
\* rejected with the error that names it.
C10_Witness ==
    /\ ~sIn.options.allowWrite
    /\ sIn.sql = FragLowerSelect \o FragUpdate
    /\ sOut.error = KeywordError("UPDATE")

(***************************************************************************)
(* src/lib/mongodb/sanitize.ts: sanitizeQueryParams                        *)
(* The QueryParams of a request: filter, sort and projection are JSON      *)
(* values (NoValue when the field is missing), skip and limit are numbers  *)
(* (0 when missing: undefined and 0 take the same branch of `||`).         *)
(***************************************************************************)
Params(filter, sort, projection, skip, limit) ==
    [kind |-> "params",
     val |-> [filter |-> filter, sort |-> sort, projection |-> projection,
              skip |-> skip, limit |-> limit]]

\* JavaScript truthiness of a JSON value: objects and arrays are truthy,
\* a scalar is falsy when it is 0, "", null or false; a missing field is falsy.
Truthy(v) ==
    \/ v.kind \in {"obj", "arr"}
    \/ v.kind = "val" /\ v.val \notin {"0", "", "null", "false"}

\* value || fallback
OrElse(v, fallback) == IF Truthy(v) THEN v ELSE fallback

Min(a, b) == IF a <= b THEN a ELSE b

sanitizeQueryParamsUnsanitized(params) == Return(params)

\* sanitizeQueryParams without the Math.min
sanitizeQueryParamsUnclamped(params) ==
    LET p == params.val
        filter == IF Truthy(p.filter) THEN sanitizeQuery(p.filter, 0)
                  ELSE Return(Obj(<<>>))
    IN  IF filter.status # "ok" THEN filter
        ELSE Return(Params(filter.value,
                           OrElse(p.sort, Obj(<<>>)),
                           OrElse(p.projection, Obj(<<>>)),
                           p.skip,
                           IF p.limit # 0 THEN p.limit ELSE 50))

sanitizeQueryParams(params) ==
    LET p == params.val
        filter == IF Truthy(p.filter) THEN sanitizeQuery(p.filter, 0)
                  ELSE Return(Obj(<<>>))
    IN  IF filter.status # "ok" THEN filter
        ELSE Return(Params(filter.value,
                           OrElse(p.sort, Obj(<<>>)),
                           OrElse(p.projection, Obj(<<>>)),
                           p.skip,
                           Min(IF p.limit # 0 THEN p.limit ELSE 50, 1000)))

(***************************************************************************)
(* Bounded query parameters, as body.query of a find request carries them. *)
(***************************************************************************)
WhereObject == Obj(<< <<"$where", Val("1==1")>> >>)
FieldObject == Obj(<< <<"a", Val("1")>> >>)
ProtoFilter == Obj(<< <<"a", Obj(<< <<"__proto__", Val("1")>>, <<"$eq", Val("2")>> >>)>> >>)

QueryFilters == {NoValue, Obj(<<>>), FieldObject, ProtoFilter, WhereObject, Val("abc")}
QuerySorts == {NoValue, Obj(<<>>), FieldObject, WhereObject}
QuerySkips == {0, 20, -1}
QueryLimits == {0, 1, 50, 1000, 1001, 5000, -5}

QueryParamsInputs ==
    {Params(filter, sort, projection, skip, limit) :
        filter \in QueryFilters, sort \in QuerySorts, projection \in QuerySorts,
        skip \in QuerySkips, limit \in QueryLimits}

\* one call sanitizeQueryParams(params)
SanitizeQueryParams ==
    /\ paramsOut = Pending
    /\ paramsOut' = sanitizeQueryParams(paramsIn)
    /\ UNCHANGED paramsIn

\* Math.floor(a / b) for b # 0
Floor(a, b) == IF b > 0 THEN a \div b ELSE (0 - a) \div (0 - b)

\* page: Math.floor(sanitizedQuery.skip / sanitizedQuery.limit) + 1
Page(sanitizedQuery) == Floor(sanitizedQuery.skip, sanitizedQuery.limit) + 1

(***************************************************************************)
(* src/lib/postgresql/sanitize.ts: sanitizeParameterizedQuery              *)
(* A parameter is modelled by the kind of JavaScript value it is.          *)
(***************************************************************************)
ParamSql(text, params) == [kind |-> "psql", val |-> [sql |-> text, params |-> params]]

AllowedParamKinds ==
    {"null", "string", "number", "boolean", "Date", "Buffer", "array", "object"}

\* typeof param; "instance" is an object whose prototype is neither null
\* nor Object.prototype
TypeOf(kind) ==
    IF kind \in {"null", "Date", "Buffer", "array", "object", "instance"} THEN "object"
    ELSE kind

DefaultMaxParams == 100

ParamCountError(maxParams) == "too many parameters, limit " \o ToString(maxParams)
ParamTypeError(i, type) == "parameter " \o ToString(i) \o " has unsupported type " \o type
PlaceholderError(count, n) ==
    "placeholder count " \o ToString(count) \o " differs from parameter count " \o ToString(n)

validateParamsLastOffender(params) ==
    LET bad == {i \in 1..Len(params) : params[i] \notin AllowedParamKinds}
    IN  IF bad = {} THEN [valid |-> TRUE, error |-> ""]
        ELSE [valid |-> FALSE,
              error |-> ParamTypeError(SetMax(bad) - 1, TypeOf(params[SetMax(bad)]))]
validateParams(params) ==
    LET bad == {i \in 1..Len(params) : params[i] \notin AllowedParamKinds}
    IN  IF bad = {} THEN [valid |-> TRUE, error |-> ""]
        ELSE [valid |-> FALSE,
              error |-> ParamTypeError(SetMin(bad) - 1, TypeOf(params[SetMin(bad)]))]

\* (sanitizedSql.match(/\$/g) || []).length
PlaceholderCount(text) == Cardinality({i \in 1..Len(text) : text[i] = "$"})

sanitizeParameterizedQuery(sql, params, options) ==
    LET sanitizedSql ==
            sanitizeSqlQuery(sql, [allowWrite |-> options.allowWrite,
                                   allowMultipleStatements |-> options.allowMultipleStatements,
                                   maxLength |-> options.maxLength])
    IN  IF sanitizedSql.status # "ok" THEN sanitizedSql
        ELSE IF Len(params) > options.maxParams
             THEN Throw(ParamCountError(options.maxParams))
        ELSE LET paramsCheck == validateParams(params)
                 placeholderCount == PlaceholderCount(sanitizedSql.value.val)
             IN  IF ~paramsCheck.valid THEN Throw(paramsCheck.error)
                 ELSE IF placeholderCount # Len(params)
                      THEN Throw(PlaceholderError(placeholderCount, Len(params)))
                 ELSE Return(ParamSql(sanitizedSql.value.val, params))

(***************************************************************************)
(* Bounded calls of sanitizeParameterizedQuery: 'SELECT' followed by at    *)
(* most MaxDollars pieces that hold a '$' (the placeholders $1 and $2, and *)
(* the string literal '$'), with a list of at most MaxParamLen parameters  *)
(* in which at most two are not numbers.                                   *)
(***************************************************************************)
MaxDollars == 2
MaxParamLen == 3
SmallMaxParams == 2

FragSelect == <<"S", "E", "L", "E", "C", "T">>
FragFirstParam == <<" ", "$", "1">>
FragSecondParam == <<" ", "$", "2">>
FragDollarLiteral == <<" ", "'", "$", "'">>
DollarFragments == {FragFirstParam, FragSecondParam, FragDollarLiteral}

ParamStatements == {FragSelect \o Concat(q) : q \in SeqsUpTo(DollarFragments, MaxDollars)}

ParamKinds ==
    AllowedParamKinds \cup {"instance", "undefined", "function", "bigint", "symbol"}

ParamLists ==
    {[x \in 1..n |-> IF x = i THEN k1 ELSE IF x = j THEN k2 ELSE "number"] :
        n \in 0..MaxParamLen, i \in 1..MaxParamLen, j \in 1..MaxParamLen,
        k1 \in ParamKinds, k2 \in {"number", "Date", "symbol"}}

\* the defaults of sanitizeParameterizedQuery
DefaultParamOptions ==
    [allowWrite |-> FALSE, allowMultipleStatements |-> FALSE,
     maxLength |-> DefaultMaxLength, maxParams |-> DefaultMaxParams]

ParamOptions ==
    {[allowWrite |-> FALSE, allowMultipleStatements |-> FALSE,
      maxLength |-> DefaultMaxLength, maxParams |-> m] :
        m \in {DefaultMaxParams, SmallMaxParams}}

\* the calls above, a stacked statement with each list under the defaults,
\* and one call under the defaults with one parameter more than the default
\* maxParams allows
ParamInputs ==
    {[sql |-> t, params |-> ps, options |-> o] :
        t \in ParamStatements, ps \in ParamLists, o \in ParamOptions}
    \cup {[sql |-> StackedExample, params |-> ps, options |-> DefaultParamOptions] :
             ps \in ParamLists}
    \cup {[sql |-> FragSelect,
           params |-> [x \in 1..(DefaultMaxParams + 1) |-> "number"],
           options |-> DefaultParamOptions]}

NoParamInput == [sql |-> <<>>, params |-> <<>>, options |-> DefaultParamOptions]

\* one call sanitizeParameterizedQuery(sql, params, options)
SanitizeParameterized ==
    /\ qOut.status = "pending"
    /\ qOut' = sanitizeParameterizedQuery(qIn.sql, qIn.params, qIn.options)
    /\ UNCHANGED qIn

(***************************************************************************)
(* Connection targets: buildConnectionString of src/lib/mongodb/client.ts  *)
(* and PostgresClient.buildConfig of src/lib/postgresql/client.ts.         *)
(* Strings are sequences of characters; the empty string is <<>>, which    *)
(* also stands for an optional field that is not set.                      *)
(***************************************************************************)
Digits == <<"0", "1", "2", "3", "4", "5", "6", "7", "8", "9">>
DigitValue(c) == (CHOOSE i \in DOMAIN Digits : Digits[i] = c) - 1

RECURSIVE NumberToString(_)
\* `${n}` for a non-negative integer
NumberToString(n) == IF n < 10 THEN <<Digits[n + 1]>>
               ELSE NumberToString(n \div 10) \o <<Digits[(n % 10) + 1]>>

RECURSIVE DigitsValue(_)
DigitsValue(text) ==
    IF text = <<>> THEN 0
    ELSE 10 * DigitsValue(SubSeq(text, 1, Len(text) - 1)) + DigitValue(text[Len(text)])

\* parseInt(text): the leading digits of the text, NaN when there are none
parseInt(text) ==
    LET stops == {i \in 1..Len(text) : text[i] \notin DigitSet}
        digits == IF stops = {} THEN text ELSE SubSeq(text, 1, SetMin(stops) - 1)
    IN  IF digits = <<>> THEN [nan |-> TRUE, value |-> 0]
        ELSE [nan |-> FALSE, value |-> DigitsValue(digits)]

\* String.prototype.lastIndexOf for one character: 0-based, -1 when absent
lastIndexOf(text, c) ==
    LET hits == {i \in 1..Len(text) : text[i] = c}
    IN  IF hits = {} THEN -1 ELSE SetMax(hits) - 1

\* String.prototype.slice(from) with a 0-based from
slice(text, from) == SubSeq(text, from + 1, Len(text))

\* the characters encodeURIComponent leaves as they are
IsUriUnreserved(c) ==
    \/ c \in LowerSet \/ c \in UpperSet \/ c \in DigitSet
    \/ c \in {"-", "_", ".", "!", "~", "*", "'", "(", ")"}

\* the escape sequence of a reserved ASCII character
PercentEncoded(c) ==
    CASE c = "@" -> <<"%", "4", "0">>
      [] c = ":" -> <<"%", "3", "A">>
      [] c = "/" -> <<"%", "2", "F">>
      [] c = "?" -> <<"%", "3", "F">>
      [] c = "#" -> <<"%", "2", "3">>
      [] c = " " -> <<"%", "2", "0">>
      [] OTHER -> <<"%", "2", "5">>

\* the text put into the URI as it is
encodeURIComponentVerbatim(text) == text

RECURSIVE encodeURIComponent(_)
encodeURIComponent(text) ==
    IF text = <<>> THEN <<>>
    ELSE (IF IsUriUnreserved(Head(text)) THEN <<Head(text)>> ELSE PercentEncoded(Head(text)))
            \o encodeURIComponent(Tail(text))

\* new URL(text) for texts of the form scheme:[//[user[:password]@]host[:port]][/path];
\* a text with no scheme makes the constructor throw.
ParseUrl(text) ==
    LET colon == indexOf(text, ":")
        afterScheme == slice(text, colon + 1)
        hasAuthority == startsWith(afterScheme, <<"/", "/">>)
        rest == IF hasAuthority THEN slice(afterScheme, 2) ELSE <<>>
        slash == indexOf(rest, "/")
        authority == IF slash = -1 THEN rest ELSE SubSeq(rest, 1, slash)
        at == lastIndexOf(authority, "@")
        userinfo == IF at = -1 THEN <<>> ELSE SubSeq(authority, 1, at)
        hostport == IF at = -1 THEN authority ELSE slice(authority, at + 1)
        userColon == indexOf(userinfo, ":")
        hostColon == indexOf(hostport, ":")
    IN  [valid |-> colon > 0,
         protocol |-> SubSeq(text, 1, colon + 1),
         username |-> IF userColon = -1 THEN userinfo ELSE SubSeq(userinfo, 1, userColon),
         password |-> IF userColon = -1 THEN <<>> ELSE slice(userinfo, userColon + 1),
         hostname |-> IF hostColon = -1 THEN hostport ELSE SubSeq(hostport, 1, hostColon),
         port |-> IF hostColon = -1 THEN <<>> ELSE slice(hostport, hostColon + 1),
         pathname |-> IF ~hasAuthority THEN afterScheme
                      ELSE IF slash = -1 THEN <<>> ELSE slice(rest, slash)]

InvalidUrlError == "Invalid URL"

\* a || b on strings
OrString(a, b) == IF a # <<>> THEN a ELSE b

\* the pool settings every PostgreSQL target carries
PoolSettings(host, port, database, user, password, ssl) ==
    [host |-> host, port |-> port, database |-> database, user |-> user,
     password |-> password, ssl |-> ssl,
     max |-> 10, min |-> 2, connectionTimeoutMillis |-> 10000, idleTimeoutMillis |-> 30000]

\* PostgresClient.buildConfig
buildConfig(config) ==
    IF config.connectionString # <<>>
    THEN LET url == ParseUrl(config.connectionString)
             port == parseInt(url.port)
         IN  IF ~url.valid THEN Throw(InvalidUrlError)
             ELSE Return(PoolSettings(
                     OrString(url.hostname, config.host),
                     IF ~port.nan /\ port.value # 0 THEN port.value ELSE config.port,
                     OrString(slice(url.pathname, 1), config.database),
                     OrString(url.username, config.username),
                     OrString(url.password, config.password),
                     IF url.protocol = <<"p", "o", "s", "t", "g", "r", "e", "s", "q", "l", ":">> THEN config.ssl ELSE "undefined"))
    ELSE Return(PoolSettings(config.host, config.port, config.database, config.username,
                             config.password,
                             IF config.ssl = "true" THEN "{rejectUnauthorized:false}"
                             ELSE "undefined"))

\* buildConnectionString
buildConnectionString(connection) ==
    LET authSource == IF connection.authenticationDatabase # <<>>
                      THEN <<"?", "a", "u", "t", "h", "S", "o", "u", "r", "c", "e", "=">> \o connection.authenticationDatabase ELSE <<>>
        authMechanismParam ==
            IF connection.authMechanism # <<>> /\ connection.authMechanism # <<"D", "E", "F", "A", "U", "L", "T">>
            THEN <<"&", "a", "u", "t", "h", "M", "e", "c", "h", "a", "n", "i", "s", "m", "=">> \o connection.authMechanism ELSE <<>>
        credentials == encodeURIComponent(connection.username) \o <<":">>
                          \o encodeURIComponent(connection.password) \o <<"@">>
    IN  IF connection.connectionString # <<>> THEN Return(connection.connectionString)
        ELSE IF connection.srv
        THEN IF connection.username # <<>> /\ connection.password # <<>>
             THEN Return(<<"m", "o", "n", "g", "o", "d", "b", "+", "s", "r", "v", ":", "/", "/">> \o credentials \o connection.host
                            \o authSource \o authMechanismParam)
             ELSE Return(<<"m", "o", "n", "g", "o", "d", "b", "+", "s", "r", "v", ":", "/", "/">> \o connection.host)
        ELSE IF connection.username # <<>> /\ connection.password # <<>>
             THEN Return(<<"m", "o", "n", "g", "o", "d", "b", ":", "/", "/">> \o credentials \o connection.host \o <<":">>
                            \o NumberToString(connection.port) \o <<"/">>
                            \o (IF authSource # <<>> THEN slice(authSource, 1) ELSE <<>>)
                            \o authMechanismParam)
             ELSE Return(<<"m", "o", "n", "g", "o", "d", "b", ":", "/", "/">>
                            \o connection.host \o <<":">> \o NumberToString(connection.port))

(***************************************************************************)
(* The descriptors the builders are applied to.                            *)
(***************************************************************************)
PostgresConnectionStrings ==
    {<<>>,
     <<"p", "o", "s", "t", "g", "r", "e", "s", "q", "l", ":", "/", "/", "u", ":", "p", "@", "h", ":", "5", "4", "3", "2", "/", "d", "b">>,
     <<"p", "o", "s", "t", "g", "r", "e", "s", ":", "/", "/", "u", ":", "p", "@", "h", ":", "5", "4", "3", "2", "/", "d", "b">>,
     <<"p", "o", "s", "t", "g", "r", "e", "s", "q", "l", ":", "/", "/", "h", "/", "d", "b">>,
     <<"p", "o", "s", "t", "g", "r", "e", "s", "q", "l", ":", "/", "/", "h", ":", "5", "4", "3", "2">>,
     <<"p", "o", "s", "t", "g", "r", "e", "s", "q", "l", ":", "/", "/", "u", "@", "h", "/">>,
     <<"p", "o", "s", "t", "g", "r", "e", "s", "q", "l", ":", "/", "/", "/", "d", "b">>,
     <<"n", "o", "u", "r", "l">>}

PostgresConnections ==
    {[backend |-> "postgresql", connectionString |-> cs, host |-> host, port |-> port,
      database |-> database, username |-> username, password |-> password, ssl |-> ssl] :
        cs \in PostgresConnectionStrings,
        host \in {<<"h">>, <<"o">>}, port \in {5432, 6543},
        database \in {<<"d", "b">>, <<"o">>},
        username \in {<<>>, <<"a">>}, password \in {<<>>, <<"s">>},
        ssl \in {"true", "false"}}

MongoConnections ==
    {[backend |-> "mongodb", connectionString |-> cs, host |-> host, port |-> port,
      username |-> username, password |-> password, srv |-> srv,
      authenticationDatabase |-> authenticationDatabase, authMechanism |-> authMechanism] :
        cs \in {<<>>, <<"m", "o", "n", "g", "o", "d", "b", ":", "/", "/", "u", ":", "p", "@", "c", ":", "2", "7", "0", "1", "7", "/", "d", "b">>},
        host \in {<<"h">>, <<"o">>}, port \in {27017, 27018},
        username \in {<<>>, <<"u", "@">>}, password \in {<<>>, <<"p">>},
        srv \in BOOLEAN,
        authenticationDatabase \in {<<>>, <<"a">>},
        authMechanism \in {<<>>, <<"D", "E", "F", "A", "U", "L", "T">>, <<"P", "L", "A", "I", "N">>}}

TargetInputs == PostgresConnections \cup MongoConnections
NoTargetInput == [backend |-> "none"]

\* the target the backend's builder makes of a descriptor
BuildFor(connection) ==
    IF connection.backend = "mongodb" THEN buildConnectionString(connection)
    ELSE buildConfig(connection)

\* one call of the builder
BuildTarget ==
    /\ dOut = Pending
    /\ dOut' = BuildFor(dIn)
    /\ UNCHANGED dIn

(***************************************************************************)
(* src/unnamed/part_004: the rate limiter (imported as @/lib/rate-limit)   *)
(***************************************************************************)
LIMITS ==
    [path \in {"/api/auth/signin", "/api/auth/register", "/api/connections/test",
               "/api/connections/add", "default"} |->
        CASE path = "/api/auth/signin" -> [requests |-> 5, window |-> 60000]
          [] path = "/api/auth/register" -> [requests |-> 3, window |-> 300000]
          [] path = "/api/connections/test" -> [requests |-> 10, window |-> 60000]
          [] path = "/api/connections/add" -> [requests |-> 5, window |-> 60000]
          [] path = "default" -> [requests |-> 100, window |-> 60000]]

\* LIMITS[path] || LIMITS.default
LimitFor(path) == IF path \in DOMAIN LIMITS THEN LIMITS[path] ELSE LIMITS["default"]

SqlQueryPath == "/api/postgresql/query"
Identities == {"ip1", "unknown"}

\* `${identifier}:${path}`
RateKey(identifier, path) == identifier \o ":" \o path
RegisterPath == "/api/auth/register"
RateKeys == {RateKey(i, path) : i \in Identities, path \in {SqlQueryPath, RegisterPath}}

\* The Map holds an entry only after count++ has run on it, so count = 0
\* stands for "no entry".
NoEntry == [count |-> 0, resetTime |-> 0]

\* for (const [key, value] of rateLimit.entries()) if (value.resetTime < now) delete
SweepExpired(map, t) ==
    [k \in DOMAIN map |->
        IF map[k].count > 0 /\ map[k].resetTime < t THEN NoEntry ELSE map[k]]

\* checkRateLimit with the ceiling compared by > where the code has >=.
checkRateLimitOffByOne(map, identifier, path, t) ==
    LET limit == LimitFor(path)
        swept == SweepExpired(map, t)
        key == RateKey(identifier, path)
        current == IF swept[key].count > 0 THEN swept[key]
                   ELSE [count |-> 0, resetTime |-> t + limit.window]
    IN  IF current.count > limit.requests
        THEN [success |-> FALSE, resetTime |-> current.resetTime, map |-> swept]
        ELSE [success |-> TRUE, resetTime |-> 0,
              map |-> [swept EXCEPT ![key] = [current EXCEPT !.count = @ + 1]]]

\* The result of checkRateLimit and the Map it leaves behind.
checkRateLimit(map, identifier, path, t) ==
    LET limit == LimitFor(path)
        swept == SweepExpired(map, t)
        key == RateKey(identifier, path)
        current == IF swept[key].count > 0 THEN swept[key]
                   ELSE [count |-> 0, resetTime |-> t + limit.window]
    IN  IF current.count >= limit.requests
        THEN [success |-> FALSE, resetTime |-> current.resetTime, map |-> swept]
        ELSE [success |-> TRUE, resetTime |-> 0,
              map |-> [swept EXCEPT ![key] = [current EXCEPT !.count = @ + 1]]]

\* getRateLimitHeaders(path)['X-RateLimit-Reset']: Math.ceil((Date.now() + 60000) / 1000)
RateLimitResetHeader(t) == ((t + 60000) + 999) \div 1000

(***************************************************************************)
(* Direct calls of checkRateLimit for the register route (3 requests in    *)
(* 300000 ms), from two identities, while time passes in steps of TickMs.  *)
(* admitLog records each call: its key, its time and what it returned.     *)
(***************************************************************************)
MaxCalls == 5
MaxTicks == 3
TickMs == 150000

\* one call checkRateLimit(identifier, '/api/auth/register')
CheckRateLimit(identifier) ==
    /\ Len(admitLog) < MaxCalls
    /\ LET result == checkRateLimit(rateLimit, identifier, RegisterPath, now)
       IN  /\ rateLimit' = result.map
           /\ admitLog' = Append(admitLog,
                             [key |-> RateKey(identifier, RegisterPath), time |-> now,
                              success |-> result.success, resetTime |-> result.resetTime])
    /\ UNCHANGED <<varsSanitizers, varsTarget, varsQueryParams, clients, varsRegistry, now, proc>>

\* time passes
Tick ==
    /\ now < MaxTicks * TickMs
    /\ now' = now + TickMs
    /\ UNCHANGED <<varsSanitizers, varsTarget, varsQueryParams, clients, varsRegistry, rateLimit, admitLog, proc>>

(***************************************************************************)
(* The connection registries: src/lib/mongodb/client.ts and                *)
(* src/lib/postgresql/client.ts.  Each module keeps a Map from connection  *)
(* id to pool.  A call runs atomically from one await to the next; the     *)
(* actions below are those pieces.  Pools are numbered in the order they   *)
(* are constructed and a number is never used twice.                       *)
(***************************************************************************)
MaxPools == 3

Procs == {"p1", "p2"}
Backends == {"mongo", "pg"}
ConnIds == {"m1", "g1"}
PoolIds == 1..MaxPools
NoPool == 0

\* A pool is "connecting" from its constructor to the end of its first
\* connect, then "open"; "failed" when that connect threw; "closed" from
\* the moment close() / end() is called on it.
UnusedPool == [backend |-> "none", id |-> "", state |-> "unused"]

\* The connection manager caches PostgresClient objects; `pool` is the
\* client's own pool field (NoPool for null).
NoClient == [cached |-> FALSE, pool |-> NoPool]

NoCall ==
    [pc |-> "idle", route |-> "none", backend |-> "none", connId |-> "",
     identity |-> "", payload |-> NoValue, verdict |-> Pending,
     args |-> NoValue, executed |-> NoValue, log |-> <<>>, pool |-> NoPool, via |-> "",
     snapshot |-> {}, status |-> "", body |-> "", deniedUntil |-> 0, resetHeader |-> 0,
     served |-> 0]

CanStart(p) == proc[p].pc \in {"idle", "settled", "responded"}
NewCall(p, route, backend, id) ==
    [NoCall EXCEPT !.route = route, !.backend = backend, !.connId = id,
                   !.served = proc[p].served]

FreePools == {n \in PoolIds : pools[n].state = "unused"}
\* connections.set(id, pool) / connections.delete(id) / connections.clear()
MapSet(b, id, n) == [connections EXCEPT ![b][id] = n]
MapDelete(b, id) == [connections EXCEPT ![b][id] = NoPool]
MapClear(b) == [connections EXCEPT ![b] = [i \in ConnIds |-> NoPool]]

\* A call is over: its locals are gone.
Finish(r, pc, status) ==
    [r EXCEPT !.pc = pc, !.status = status, !.pool = NoPool, !.via = "", !.snapshot = {}]

\* NextResponse.json(..., {status})
Respond(r, code) == Finish(r, "responded", code)

\* a direct call of a registry function resolves or rejects; what is left
\* of it is which function it was and how it ended
Settle(r, status) ==
    [Finish(r, "settled", status) EXCEPT !.backend = "none", !.connId = "", !.args = NoValue,
                                          !.executed = NoValue, !.log = <<>>]

\* error.message of what a handler catches: the sanitizer's message when the
\* sanitizer threw, else the message of the driver's error
BackendFailure == "backend failure"
ErrorMessage(r) == IF r.verdict.status = "error" THEN r.verdict.error ELSE BackendFailure

\* the error text of the sql route's 403 response
SqlInjectionResponse == "potential SQL injection detected, query rejected"

\* Where a thrown error ends: the catch block of the route handler or of
\* testConnection (which returns {success: false, error}), or the caller of
\* the registry function.
Catch(r, errorName) ==
    IF r.route = "sql"
    THEN IF errorName = "SqlInjectionError"
         THEN [Respond(r, "403") EXCEPT !.body = SqlInjectionResponse]
         ELSE [Respond(r, "500") EXCEPT !.body = ErrorMessage(r)]
    ELSE IF r.route \in {"find", "aggregate"}
    THEN [Respond(r, "500") EXCEPT !.body = ErrorMessage(r)]
    ELSE IF r.route = "testConnection" THEN Settle(r, "failure")
    ELSE Settle(r, "rejected")

\* new MongoClient(...); await client.connect()
ConstructMongoClient(p, r, conns) ==
    /\ FreePools # {}
    /\ pools' = [pools EXCEPT ![SetMin(FreePools)] =
                    [backend |-> "mongo", id |-> r.connId, state |-> "connecting"]]
    /\ connections' = conns
    /\ proc' = [proc EXCEPT ![p] = [r EXCEPT !.pc = "connect", !.pool = SetMin(FreePools)]]

\* getMongoClient up to its first await
EnterGetMongoClient(p, r) ==
    LET cached == connections["mongo"][r.connId]
    IN  IF cached # NoPool
        THEN /\ proc' = [proc EXCEPT ![p] = [r EXCEPT !.pc = "ping", !.pool = cached]]
             /\ UNCHANGED varsRegistry
        ELSE ConstructMongoClient(p, r, connections)

\* a direct call of getMongoClient(connection)
GetMongoClient(p, id) ==
    /\ CanStart(p)
    /\ EnterGetMongoClient(p, NewCall(p, "getMongoClient", "mongo", id))
    /\ UNCHANGED <<varsSanitizers, varsTarget, varsQueryParams, clients, varsLimiter>>

\* await cached.db('admin').command({ping: 1}) resolved: return cached
GetMongoClientPingOk(p) ==
    /\ proc[p].pc = "ping"
    /\ pools[proc[p].pool].state = "open"
    /\ proc' = [proc EXCEPT ![p].pc = "client"]
    /\ UNCHANGED <<varsSanitizers, varsTarget, varsQueryParams, clients, varsLimiter, varsRegistry>>

\* the ping threw and the call builds a new client with the entry left in
\* the Map
GetMongoClientPingFailKeepingEntry(p) ==
    /\ proc[p].pc = "ping"
    /\ ConstructMongoClient(p, [proc[p] EXCEPT !.snapshot = {proc[p].pool}], connections)
    /\ UNCHANGED <<varsSanitizers, varsTarget, varsQueryParams, clients, varsLimiter>>

\* the ping threw: connections.delete(id), then build a new client.
\* snapshot keeps the client whose ping failed.
GetMongoClientPingFail(p) ==
    /\ proc[p].pc = "ping"
    /\ ConstructMongoClient(p, [proc[p] EXCEPT !.snapshot = {proc[p].pool}],
                            MapDelete("mongo", proc[p].connId))
    /\ UNCHANGED <<varsSanitizers, varsTarget, varsQueryParams, clients, varsLimiter>>

\* await client.connect() resolved: connections.set(id, client); return client
GetMongoClientConnectOk(p) ==
    /\ proc[p].pc = "connect"
    /\ pools' = [pools EXCEPT ![proc[p].pool].state = "open"]
    /\ connections' = MapSet("mongo", proc[p].connId, proc[p].pool)
    /\ proc' = [proc EXCEPT ![p].pc = "client"]
    /\ UNCHANGED <<varsSanitizers, varsTarget, varsQueryParams, clients, varsLimiter>>

\* await client.connect() threw and the client is put in the Map all the same
GetMongoClientConnectFailCaching(p) ==
    /\ proc[p].pc = "connect"
    /\ pools' = [pools EXCEPT ![proc[p].pool].state = "failed"]
    /\ connections' = MapSet("mongo", proc[p].connId, proc[p].pool)
    /\ proc' = [proc EXCEPT ![p] = Catch(proc[p], "Error")]
    /\ UNCHANGED <<varsSanitizers, varsTarget, varsQueryParams, clients, varsLimiter>>

\* await client.connect() threw: the error leaves getMongoClient
GetMongoClientConnectFail(p) ==
    /\ proc[p].pc = "connect"
    /\ pools' = [pools EXCEPT ![proc[p].pool].state = "failed"]
    /\ proc' = [proc EXCEPT ![p] = Catch(proc[p], "Error")]
    /\ UNCHANGED <<varsSanitizers, varsTarget, varsQueryParams, clients, varsLimiter, connections>>

\* the direct caller has its client
GetMongoClientReturn(p) ==
    /\ proc[p].pc = "client"
    /\ proc[p].route = "getMongoClient"
    /\ proc' = [proc EXCEPT ![p] = Settle(proc[p], "resolved")]
    /\ UNCHANGED <<varsSanitizers, varsTarget, varsQueryParams, clients, varsLimiter, varsRegistry>>

\* PostgresClient.connect up to its first await: this.pool = new Pool(config).
\* `via` tells which caller awaits it: getPostgresClient or query.
PostgresClientConnect(p, r, via, conns) ==
    /\ FreePools # {}
    /\ pools' = [pools EXCEPT ![SetMin(FreePools)] =
                    [backend |-> "pg", id |-> r.connId, state |-> "connecting"]]
    /\ connections' = conns
    /\ proc' = [proc EXCEPT ![p] =
                   [r EXCEPT !.pc = "pgConnect", !.pool = SetMin(FreePools), !.via = via]]

\* getPostgresClient up to its first await
EnterGetPostgresClient(p, r) ==
    LET cached == connections["pg"][r.connId]
    IN  IF cached # NoPool
        THEN /\ proc' = [proc EXCEPT ![p] = [r EXCEPT !.pc = "pgProbe", !.pool = cached]]
             /\ UNCHANGED varsRegistry
        ELSE PostgresClientConnect(p, r, "get", connections)

\* a direct call of executeQuery(connection, sql, params):
\* getPostgresClient, then client.query
ExecuteQuery(p, id) ==
    /\ CanStart(p)
    /\ EnterGetPostgresClient(p, [NewCall(p, "executeQuery", "pg", id) EXCEPT
                                     !.args = ParamSql(FragSelect1, <<>>)])
    /\ UNCHANGED <<varsSanitizers, varsTarget, varsQueryParams, clients, varsLimiter>>

\* cached.connect() and SELECT 1 succeeded: return new PostgresClient(connection),
\* a client whose own pool field is null
GetPostgresClientProbeOk(p) ==
    /\ proc[p].pc = "pgProbe"
    /\ pools[proc[p].pool].state = "open"
    /\ proc' = [proc EXCEPT ![p].pc = "pgClient", ![p].pool = NoPool]
    /\ UNCHANGED <<varsSanitizers, varsTarget, varsQueryParams, clients, varsLimiter, varsRegistry>>

\* the probe threw: connections.delete(id), new PostgresClient, connect()
GetPostgresClientProbeFail(p) ==
    /\ proc[p].pc = "pgProbe"
    /\ PostgresClientConnect(p, [proc[p] EXCEPT !.snapshot = {proc[p].pool}], "get",
                             MapDelete("pg", proc[p].connId))
    /\ UNCHANGED <<varsSanitizers, varsTarget, varsQueryParams, clients, varsLimiter>>

\* pool.connect() and SELECT 1 succeeded inside connect():
\* connections.set(id, this.pool); then the awaiting caller goes on:
\* getPostgresClient returns the client, query runs this.pool.query(sql, params)
PostgresClientConnectOk(p) ==
    /\ proc[p].pc = "pgConnect"
    /\ pools' = [pools EXCEPT ![proc[p].pool].state = "open"]
    /\ connections' = MapSet("pg", proc[p].connId, proc[p].pool)
    /\ proc' = [proc EXCEPT ![p] =
                   IF proc[p].via = "get" THEN [proc[p] EXCEPT !.pc = "pgClient"]
                   ELSE [proc[p] EXCEPT !.pc = "running", !.executed = proc[p].args,
                                        !.log = Append(@, "execute")]]
    /\ UNCHANGED <<varsSanitizers, varsTarget, varsQueryParams, clients, varsLimiter>>

\* connect() caught an error: status = 'error', this.pool = null (the Pool
\* object is dropped without end()), DatabaseConnectionError thrown
PostgresClientConnectFail(p) ==
    /\ proc[p].pc = "pgConnect"
    /\ pools' = [pools EXCEPT ![proc[p].pool].state = "failed"]
    /\ proc' = [proc EXCEPT ![p] = Catch(proc[p], "DatabaseConnectionError")]
    /\ UNCHANGED <<varsSanitizers, varsTarget, varsQueryParams, clients, varsLimiter, connections>>

\* client.query(sql, params): if (!this.pool) await this.connect();
\* then this.pool.query(sql, params)
PostgresClientQuery(p) ==
    /\ proc[p].pc = "pgClient"
    /\ proc[p].route \in {"executeQuery", "sql"}
    /\ IF proc[p].pool = NoPool
       THEN PostgresClientConnect(p, proc[p], "query", connections)
       ELSE /\ proc' = [proc EXCEPT ![p].pc = "running",
                                    ![p].executed = proc[p].args,
                                    ![p].log = Append(@, "execute")]
            /\ UNCHANGED varsRegistry
    /\ UNCHANGED <<varsSanitizers, varsTarget, varsQueryParams, clients, varsLimiter>>

\* closeConnection(connectionId) up to its await, the same code in both
\* registries: the cached pool, if any, has close() / end() called on it.
\* pg's Pool.end() rejects when the pool was ended before; the rejection
\* leaves closeConnection before connections.delete.
CloseConnection(p, b, id) ==
    /\ CanStart(p)
    /\ LET r == NewCall(p, "closeConnection", b, id)
           cached == connections[b][id]
       IN  IF cached = NoPool
           THEN /\ proc' = [proc EXCEPT ![p] = Settle(r, "resolved")]
                /\ UNCHANGED pools
           ELSE IF b = "pg" /\ pools[cached].state = "closed"
           THEN /\ proc' = [proc EXCEPT ![p] = Catch(r, "Error")]
                /\ UNCHANGED pools
           ELSE /\ proc' = [proc EXCEPT ![p] = [r EXCEPT !.pc = "closing", !.pool = cached]]
                /\ pools' = [pools EXCEPT ![cached].state = "closed"]
    /\ UNCHANGED <<varsSanitizers, varsTarget, varsQueryParams, clients, varsLimiter, connections>>

\* the close resolved: connections.delete(connectionId)
CloseConnectionDone(p) ==
    /\ proc[p].pc = "closing"
    /\ connections' = MapDelete(proc[p].backend, proc[p].connId)
    /\ proc' = [proc EXCEPT ![p] = Settle(proc[p], "resolved")]
    /\ UNCHANGED <<varsSanitizers, varsTarget, varsQueryParams, clients, varsLimiter, pools>>

\* closeAllConnections() up to its await: close() / end() is called on every
\* pool that is in the Map now
CloseAllConnections(p, b) ==
    /\ CanStart(p)
    /\ LET r == NewCall(p, "closeAllConnections", b, "")
           snapshot == {connections[b][i] : i \in ConnIds} \ {NoPool}
       IN  /\ pools' = [n \in PoolIds |->
                           IF n \in snapshot THEN [pools[n] EXCEPT !.state = "closed"]
                           ELSE pools[n]]
           /\ proc' = [proc EXCEPT ![p] =
                          IF b = "pg" /\ \E n \in snapshot : pools[n].state = "closed"
                          THEN Catch(r, "Error")
                          ELSE [r EXCEPT !.pc = "closingAll", !.snapshot = snapshot]]
    /\ UNCHANGED <<varsSanitizers, varsTarget, varsQueryParams, clients, varsLimiter, connections>>

\* Promise.all resolved: connections.clear()
CloseAllConnectionsDone(p) ==
    /\ proc[p].pc = "closingAll"
    /\ connections' = MapClear(proc[p].backend)
    /\ proc' = [proc EXCEPT ![p] = Settle(proc[p], "resolved")]
    /\ UNCHANGED <<varsSanitizers, varsTarget, varsQueryParams, clients, varsLimiter, pools>>

(***************************************************************************)
(* testConnection of the two backends.                                     *)
(***************************************************************************)
\* mongodb testConnection(connection) up to its first await: inside the try,
\* getMongoClient(connection).  snapshot keeps what was cached for the id.
TestMongoConnection(p, id) ==
    /\ CanStart(p)
    /\ EnterGetMongoClient(p, [NewCall(p, "testConnection", "mongo", id) EXCEPT
                                  !.snapshot = {connections["mongo"][id]} \ {NoPool}])
    /\ UNCHANGED <<varsSanitizers, varsTarget, varsQueryParams, clients, varsLimiter>>

\* await client.db('admin').command({ping: 1}) resolved: return {success: true}
TestMongoConnectionPingOk(p) ==
    /\ proc[p].route = "testConnection"
    /\ proc[p].pc = "client"
    /\ pools[proc[p].pool].state = "open"
    /\ proc' = [proc EXCEPT ![p] = Settle(proc[p], "success")]
    /\ UNCHANGED <<varsSanitizers, varsTarget, varsQueryParams, clients, varsLimiter, varsRegistry>>

\* the ping threw: the catch block returns {success: false, error}
TestMongoConnectionPingFail(p) ==
    /\ proc[p].route = "testConnection"
    /\ proc[p].pc = "client"
    /\ proc' = [proc EXCEPT ![p] = Catch(proc[p], "Error")]
    /\ UNCHANGED <<varsSanitizers, varsTarget, varsQueryParams, clients, varsLimiter, varsRegistry>>

\* postgresql testConnection(connection) up to its first await:
\* testPool = new Pool({connectionString, ..., max: 1}), a pool of its own
\* that no cache ever holds; await testPool.connect()
TestPostgresConnection(p, id) ==
    /\ CanStart(p)
    /\ FreePools # {}
    /\ pools' = [pools EXCEPT ![SetMin(FreePools)] =
                    [backend |-> "pgTest", id |-> id, state |-> "connecting"]]
    /\ proc' = [proc EXCEPT ![p] =
                   [NewCall(p, "testConnection", "pg", id) EXCEPT
                       !.pc = "pgTest", !.pool = SetMin(FreePools),
                       !.snapshot = {connections["pg"][id]} \ {NoPool}]]
    /\ UNCHANGED <<varsSanitizers, varsTarget, varsQueryParams, clients, varsLimiter, connections>>

\* connect and SELECT 1 succeeded: client.release(); await testPool.end();
\* return {success: true}
TestPostgresConnectionOk(p) ==
    /\ proc[p].pc = "pgTest"
    /\ pools' = [pools EXCEPT ![proc[p].pool].state = "closed"]
    /\ proc' = [proc EXCEPT ![p] = Settle(proc[p], "success")]
    /\ UNCHANGED <<varsSanitizers, varsTarget, varsQueryParams, clients, varsLimiter, connections>>

\* connect or SELECT 1 threw: the catch block returns {success: false, error};
\* testPool.end() is not reached
TestPostgresConnectionFail(p) ==
    /\ proc[p].pc = "pgTest"
    /\ pools' = [pools EXCEPT ![proc[p].pool].state = "failed"]
    /\ proc' = [proc EXCEPT ![p] = Catch(proc[p], "Error")]
    /\ UNCHANGED <<varsSanitizers, varsTarget, varsQueryParams, clients, varsLimiter, connections>>

(***************************************************************************)
(* src/lib/database/connection-manager.ts: a third cache, from connection  *)
(* id to the PostgresClient object getPostgresClient returned, in front of *)
(* the two registries.                                                     *)
(***************************************************************************)
\* isPostgresConnection(connection) / isMongoConnection(connection)
TypeOfConnection(id) == IF id = "g1" THEN "pg" ELSE "mongo"

\* getDatabaseClient(connection) up to its first await: the cached client,
\* or getPostgresClient / getMongoClient
GetDatabaseClient(p, id) ==
    /\ CanStart(p)
    /\ IF clients[id].cached
       THEN /\ proc' = [proc EXCEPT ![p] =
                           Settle(NewCall(p, "getDatabaseClient", TypeOfConnection(id), id),
                                  "resolved")]
            /\ UNCHANGED varsRegistry
       ELSE IF TypeOfConnection(id) = "pg"
       THEN EnterGetPostgresClient(p, NewCall(p, "getDatabaseClient", "pg", id))
       ELSE EnterGetMongoClient(p, NewCall(p, "getDatabaseClient", "mongo", id))
    /\ UNCHANGED <<varsSanitizers, varsTarget, varsQueryParams, clients, varsLimiter>>

\* getPostgresClient resolved: connections.set(connection.id, client); return
\* client.  A MongoClient is returned as it is and not cached here.
GetDatabaseClientReturn(p) ==
    /\ proc[p].route = "getDatabaseClient"
    /\ proc[p].pc \in {"client", "pgClient"}
    /\ clients' = IF proc[p].pc = "pgClient"
                  THEN [clients EXCEPT ![proc[p].connId] =
                           [cached |-> TRUE, pool |-> proc[p].pool]]
                  ELSE clients
    /\ proc' = [proc EXCEPT ![p] = Settle(proc[p], "resolved")]
    /\ UNCHANGED <<varsSanitizers, varsTarget, varsQueryParams, varsLimiter, varsRegistry>>

\* every pool a cache holds for the id: the manager's client's pool and the
\* entries of the two registries
CachedFor(id) ==
    {clients[id].pool, connections["mongo"][id], connections["pg"][id]} \ {NoPool}

\* lines 50-52, closePostgresConnection(connectionId) up to its await
ManagerClosePostgres(r, conns, pls) ==
    LET cached == conns["pg"][r.connId]
    IN  IF cached = NoPool
        THEN [conns |-> conns, pls |-> pls, r |-> Settle(r, "resolved")]
        ELSE IF pls[cached].state = "closed"
        THEN [conns |-> conns, pls |-> pls, r |-> Catch(r, "Error")]
        ELSE [conns |-> conns, pls |-> [pls EXCEPT ![cached].state = "closed"],
              r |-> [r EXCEPT !.pc = "managerClosingPostgres", !.pool = cached]]

\* lines 46-48, closeMongoConnection(connectionId) up to its await; when it
\* finds nothing the PostgreSQL registry follows at once
ManagerCloseMongo(r, conns, pls) ==
    LET cached == conns["mongo"][r.connId]
    IN  IF cached = NoPool THEN ManagerClosePostgres(r, conns, pls)
        ELSE [conns |-> conns, pls |-> [pls EXCEPT ![cached].state = "closed"],
              r |-> [r EXCEPT !.pc = "managerClosingMongo", !.pool = cached]]

\* closeConnection(connectionId) of the connection manager up to its first
\* await: client.close() runs disconnect(), which ends the client's own pool
\* if it has one
ManagerCloseConnection(p, id) ==
    /\ CanStart(p)
    /\ LET r == [NewCall(p, "managerCloseConnection", "manager", id) EXCEPT
                    !.snapshot = CachedFor(id)]
           client == clients[id]
       IN  IF client.cached /\ client.pool # NoPool
           THEN /\ IF pools[client.pool].state = "closed"
                   THEN /\ proc' = [proc EXCEPT ![p] = Catch(r, "Error")]
                        /\ UNCHANGED pools
                   ELSE /\ proc' = [proc EXCEPT ![p] =
                                       [r EXCEPT !.pc = "managerClosingClient",
                                                 !.pool = client.pool]]
                        /\ pools' = [pools EXCEPT ![client.pool].state = "closed"]
                /\ UNCHANGED <<connections, clients>>
           ELSE LET out == ManagerCloseMongo(r, connections, pools)
                IN  /\ clients' = [clients EXCEPT ![id] = NoClient]
                    /\ connections' = out.conns
                    /\ pools' = out.pls
                    /\ proc' = [proc EXCEPT ![p] = out.r]
    /\ UNCHANGED <<varsSanitizers, varsTarget, varsQueryParams, varsLimiter>>

\* pool.end() of the client's pool resolved: disconnect() goes on with
\* this.pool = null and connections.delete(this.connectionId) on the
\* PostgreSQL registry, the manager deletes its entry, then lines 46-52
ManagerClientClosed(p) ==
    /\ proc[p].pc = "managerClosingClient"
    /\ LET id == proc[p].connId
           out == ManagerCloseMongo(proc[p], [connections EXCEPT !["pg"][id] = NoPool], pools)
       IN  /\ clients' = [clients EXCEPT ![id] = NoClient]
           /\ connections' = out.conns
           /\ pools' = out.pls
           /\ proc' = [proc EXCEPT ![p] = out.r]
    /\ UNCHANGED <<varsSanitizers, varsTarget, varsQueryParams, varsLimiter>>

\* closeMongoConnection resolved (its connections.delete included), then
\* lines 50-52
ManagerMongoClosed(p) ==
    /\ proc[p].pc = "managerClosingMongo"
    /\ LET out == ManagerClosePostgres(proc[p],
                     [connections EXCEPT !["mongo"][proc[p].connId] = NoPool], pools)
       IN  /\ connections' = out.conns
           /\ pools' = out.pls
           /\ proc' = [proc EXCEPT ![p] = out.r]
    /\ UNCHANGED <<varsSanitizers, varsTarget, varsQueryParams, clients, varsLimiter>>

\* closePostgresConnection resolved (its connections.delete included)
ManagerPostgresClosed(p) ==
    /\ proc[p].pc = "managerClosingPostgres"
    /\ connections' = MapDelete("pg", proc[p].connId)
    /\ proc' = [proc EXCEPT ![p] = Settle(proc[p], "resolved")]
    /\ UNCHANGED <<varsSanitizers, varsTarget, varsQueryParams, clients, varsLimiter, pools>>

\* the backend answered the call that is running: the route responds 200,
\* a direct call resolves
BackendReply(p) ==
    /\ proc[p].pc = "running"
    /\ proc' = [proc EXCEPT ![p] =
                   IF proc[p].route \in {"find", "aggregate", "sql"}
                   THEN Respond(proc[p], "200")
                   ELSE Settle(proc[p], "resolved")]
    /\ UNCHANGED <<varsSanitizers, varsTarget, varsQueryParams, clients, varsLimiter, varsRegistry>>

\* the backend call threw (DatabaseQueryError for pg)
BackendError(p) ==
    /\ proc[p].pc \in {"counting", "running"}
    /\ proc' = [proc EXCEPT ![p] = Catch(proc[p], "Error")]
    /\ UNCHANGED <<varsSanitizers, varsTarget, varsQueryParams, clients, varsLimiter, varsRegistry>>

(***************************************************************************)
(* The query routes.  Each handler runs atomically up to the first await   *)
(* that touches shared state; what it awaits there is the registry.        *)
(*   find       src/app/api/connections/collections/route.ts, POST         *)
(*   aggregate  src/app/api/connections/aggregate/route.ts, POST           *)
(*   sql        src/unnamed/part_009, POST                                 *)
(* A request carries: whether it has a session, the connection id of its   *)
(* body ("" when missing), and the user-authored payload.  The log of a    *)
(* request lists the collaborators it has reached, in order.               *)
(***************************************************************************)
MaxRequests == 2

\* getConnection(userId, connectionId): the stored descriptors, by id
StoredConnections == [id \in ConnIds |-> IF id = "m1" THEN "mongo" ELSE "pg"]

NoParams == Params(NoValue, NoValue, NoValue, 0, 0)

GatewayFilters ==
    {NoValue,
     Obj(<< <<"a", Val("1")>> >>),
     Obj(<< <<"a", Obj(<< <<"$where", Val("1==1")>> >>)>> >>),
     Obj(<< <<"__proto__", Val("1")>> >>)}

FindRequests ==
    {[session |-> FALSE, connId |-> "m1", payload |-> NoParams]}
    \cup {[session |-> TRUE, connId |-> c, payload |-> NoParams] : c \in {"", "zz"}}
    \cup {[session |-> TRUE, connId |-> "m1", payload |-> Params(f, NoValue, NoValue, 0, 0)] :
             f \in GatewayFilters}

GatewayPipelines ==
    {NoValue,
     Arr(<<>>),
     Arr(<< Obj(<< <<"$match", Obj(<< <<"a", Val("1")>> >>)>> >>) >>),
     Arr(<< Obj(<< <<"$match", Obj(<<>>)>> >>), Obj(<< <<"$out", Val("t")>> >>) >>)}

AggregateRequests ==
    {[session |-> FALSE, connId |-> "m1", payload |-> Arr(<<>>)]}
    \cup {[session |-> TRUE, connId |-> c, payload |-> Arr(<<>>)] : c \in {"", "zz"}}
    \cup {[session |-> TRUE, connId |-> "m1", payload |-> q] : q \in GatewayPipelines}

SelectParam == <<"S", "E", "L", "E", "C", "T", " ", "$", "1">>

GatewayStatements ==
    {NoValue,
     ParamSql(FragSelect1, <<>>),
     ParamSql(FragSelect1 \o FragSemicolon \o FragDropTable, <<>>),
     ParamSql(FragLowerSelect \o FragUpdate, <<>>),
     ParamSql(SelectParam, <<"number">>),
     ParamSql(SelectParam, <<>>)}

SqlRequests ==
    {[session |-> FALSE, identity |-> "ip1", connId |-> "g1",
      payload |-> ParamSql(FragSelect1, <<>>)]}
    \cup {[session |-> TRUE, identity |-> "ip1", connId |-> c,
           payload |-> ParamSql(FragSelect1, <<>>)] : c \in {"", "zz", "m1"}}
    \cup {[session |-> TRUE, identity |-> "ip1", connId |-> "g1", payload |-> q] :
             q \in GatewayStatements}
    \cup {[session |-> TRUE, identity |-> "unknown", connId |-> "g1",
           payload |-> ParamSql(FragSelect1, <<>>)]}

\* the options the sql route passes, completed with the defaults
SqlRouteOptions ==
    [allowWrite |-> FALSE, allowMultipleStatements |-> FALSE,
     maxLength |-> DefaultMaxLength, maxParams |-> DefaultMaxParams]

\* sanitizeParameterizedQuery(query, params || [], {allowWrite: false,
\* allowMultipleStatements: false}) for every statement of the request set,
\* computed once
SanitizedStatements ==
    [q \in {s \in GatewayStatements : s.kind = "psql"} |->
        sanitizeParameterizedQuery(q.val.sql, q.val.params, SqlRouteOptions)]

RECURSIVE TotalServed(_)
\* The requests the server has taken so far.
TotalServed(ps) ==
    IF ps = {} THEN 0
    ELSE LET p == CHOOSE x \in ps : TRUE
         IN  proc[p].served + TotalServed(ps \ {p})

CanServe(p) == CanStart(p) /\ TotalServed(Procs) < MaxRequests

NewRequest(p, route, backend, req) ==
    [NewCall(p, route, backend, req.connId) EXCEPT
        !.payload = req.payload, !.served = @ + 1]

\* The response a mongo route gives before it reaches the registry, "" if none.
MongoRouteEarlyStatus(req) ==
    IF ~req.session THEN "401"
    ELSE IF req.connId = "" \/ req.payload.kind = "none" THEN "400"
    ELSE IF req.connId \notin ConnIds THEN "404"
    ELSE ""

\* POST find documents, lines 61-89: session, body, getConnection, then
\* getMongoClient(connection) up to its await
FindDocuments(p, req) ==
    /\ CanServe(p)
    /\ LET r == NewRequest(p, "find", "mongo", req)
           early == MongoRouteEarlyStatus(req)
       IN  IF early # ""
           THEN /\ proc' = [proc EXCEPT ![p] = Respond(r, early)]
                /\ UNCHANGED varsRegistry
           ELSE EnterGetMongoClient(p, [r EXCEPT !.log = <<"registry">>])
    /\ UNCHANGED <<varsSanitizers, varsTarget, varsQueryParams, clients, varsLimiter>>

\* lines 89-97: the client is there; sanitizeQueryParams(queryParams), then
\* collection.countDocuments(sanitizedQuery.filter)
FindDocumentsCount(p) ==
    /\ proc[p].pc = "client"
    /\ proc[p].route = "find"
    /\ LET sanitizedQuery == sanitizeQueryParams(proc[p].payload)
           r == [proc[p] EXCEPT !.verdict = sanitizedQuery, !.log = Append(@, "sanitize")]
       IN  proc' = [proc EXCEPT ![p] =
                       IF sanitizedQuery.status # "ok" THEN Catch(r, "Error")
                       ELSE [r EXCEPT !.pc = "counting",
                                      !.args = sanitizedQuery.value,
                                      !.executed = sanitizedQuery.value.val.filter,
                                      !.log = Append(@, "execute")]]
    /\ UNCHANGED <<varsSanitizers, varsTarget, varsQueryParams, clients, varsLimiter, varsRegistry>>

\* lines 100-106: the count is there; collection.find(sanitizedQuery.filter)
\* with the projection, sort, skip and limit of sanitizedQuery
FindDocumentsFind(p) ==
    /\ proc[p].pc = "counting"
    /\ proc' = [proc EXCEPT ![p].pc = "running",
                            ![p].executed = proc[p].args.val.filter]
    /\ UNCHANGED <<varsSanitizers, varsTarget, varsQueryParams, clients, varsLimiter, varsRegistry>>

\* POST aggregate, lines 94-122
Aggregate(p, req) ==
    /\ CanServe(p)
    /\ LET r == NewRequest(p, "aggregate", "mongo", req)
           early == MongoRouteEarlyStatus(req)
       IN  IF early # ""
           THEN /\ proc' = [proc EXCEPT ![p] = Respond(r, early)]
                /\ UNCHANGED varsRegistry
           ELSE EnterGetMongoClient(p, [r EXCEPT !.log = <<"registry">>])
    /\ UNCHANGED <<varsSanitizers, varsTarget, varsQueryParams, clients, varsLimiter>>

\* lines 122-128: sanitizePipeline(pipeline), then
\* collection.aggregate(sanitizedPipeline)
AggregateRun(p) ==
    /\ proc[p].pc = "client"
    /\ proc[p].route = "aggregate"
    /\ LET sanitizedPipeline == sanitizePipeline(proc[p].payload)
           r == [proc[p] EXCEPT !.verdict = sanitizedPipeline, !.log = Append(@, "sanitize")]
       IN  proc' = [proc EXCEPT ![p] =
                       IF sanitizedPipeline.status # "ok" THEN Catch(r, "Error")
                       ELSE [r EXCEPT !.pc = "running",
                                      !.args = sanitizedPipeline.value,
                                      !.executed = sanitizedPipeline.value,
                                      !.log = Append(@, "execute")]]
    /\ UNCHANGED <<varsSanitizers, varsTarget, varsQueryParams, clients, varsLimiter, varsRegistry>>

\* The response the sql route gives after the rate limiter has admitted the
\* request and before it sanitizes, "" if none.
SqlRouteEarlyStatus(req) ==
    IF req.connId = "" \/ req.payload.kind = "none" THEN "400"
    ELSE IF req.connId \notin ConnIds THEN "404"
    ELSE IF StoredConnections[req.connId] # "pg" THEN "400"
    ELSE ""

\* POST sql query, lines 10-62: session, checkRateLimit(ip, path), body,
\* getConnection, isPostgresConnection, sanitizeParameterizedQuery, then
\* executeQuery(connection, sanitized.sql, sanitized.params) up to the
\* await inside getPostgresClient
ExecuteSql(p, req) ==
    /\ CanServe(p)
    /\ LET r0 == [NewRequest(p, "sql", "pg", req) EXCEPT !.identity = req.identity]
           rateLimitCheck == checkRateLimit(rateLimit, req.identity, SqlQueryPath, now)
           r1 == [r0 EXCEPT !.log = <<"rateLimit">>]
           early == SqlRouteEarlyStatus(req)
           sanitized == SanitizedStatements[req.payload]
           r2 == [r1 EXCEPT !.verdict = sanitized, !.log = Append(@, "sanitize")]
       IN  IF ~req.session
           THEN /\ proc' = [proc EXCEPT ![p] = Respond(r0, "401")]
                /\ UNCHANGED <<varsRegistry, rateLimit>>
           ELSE /\ rateLimit' = rateLimitCheck.map
                /\ IF ~rateLimitCheck.success
                   THEN /\ proc' = [proc EXCEPT ![p] =
                                       [Respond(r1, "429") EXCEPT
                                           !.deniedUntil = rateLimitCheck.resetTime,
                                           !.resetHeader = RateLimitResetHeader(now)]]
                        /\ UNCHANGED varsRegistry
                   ELSE IF early # ""
                   THEN /\ proc' = [proc EXCEPT ![p] = Respond(r1, early)]
                        /\ UNCHANGED varsRegistry
                   ELSE IF sanitized.status # "ok"
                   THEN /\ proc' = [proc EXCEPT ![p] = Catch(r2, "SqlInjectionError")]
                        /\ UNCHANGED varsRegistry
                   ELSE EnterGetPostgresClient(p,
                            [r2 EXCEPT !.args = sanitized.value,
                                       !.log = Append(@, "registry")])
    /\ UNCHANGED <<varsSanitizers, varsTarget, varsQueryParams, clients, now, admitLog>>

(***************************************************************************)
(* What the claims about the registries and the routes speak of.           *)
(***************************************************************************)
\* The pools of one id that hold or are acquiring connections.  A pool
\* whose first connect failed is not counted, although nothing closes it.
LivePools(b, id) ==
    {n \in PoolIds : /\ pools[n].backend = b
                     /\ pools[n].id = id
                     /\ pools[n].state \in {"connecting", "open"}}

\* The getMongoClient / getPostgresClient calls for one id that are
\* awaiting the connect of a pool they constructed.
InFlightBuilds(b, id) ==
    {p \in Procs : /\ proc[p].backend = b
                   /\ proc[p].connId = id
                   /\ \/ proc[p].pc = "connect"
                      \/ proc[p].pc = "pgConnect" /\ proc[p].via = "get"}

\* The ids the calls of the registry specification use at each backend.
IdsOf(b) == IF b = "mongo" THEN ConnIds ELSE {"g1"}

QueryRoutes == {"find", "aggregate", "sql"}

\* The verdict of the route's sanitizer on the payload of a request; for
\* the filter it is computed from sanitizeQuery itself.
SanitizerVerdict(r) ==
    CASE r.route = "find" ->
            IF Truthy(r.payload.val.filter) THEN sanitizeQuery(r.payload.val.filter, 0)
            ELSE Return(Obj(<<>>))
      [] r.route = "aggregate" -> sanitizePipeline(r.payload)
      [] r.route = "sql" -> SanitizedStatements[r.payload]

\* The payload in what the route's sanitizer returned to the handler.
ReturnedPayload(r) ==
    IF r.route = "find" THEN r.verdict.value.val.filter ELSE r.verdict.value

IsPrefix(s, t) == Len(s) <= Len(t) /\ s = SubSeq(t, 1, Len(s))

Occurrences(log, stage) == Cardinality({i \in 1..Len(log) : log[i] = stage})

(***************************************************************************)
(* C1 (as claimed): in every reachable state of the registries at most     *)
(* one live pool exists for any connection id of a backend, whatever       *)
(* getMongoClient, executeQuery, closeConnection and closeAllConnections   *)
(* calls have run or are running.                                          *)
(***************************************************************************)
C1_AtMostOneLivePoolPerId ==
    \A b \in Backends : \A id \in IdsOf(b) : Cardinality(LivePools(b, id)) <= 1

(***************************************************************************)
(* C2 (as claimed): the getOrCreate calls for one id that are in flight    *)
(* while no pool is cached for it build one pool between them: no two of   *)
(* them each await the connect of a pool of their own.                     *)
(***************************************************************************)
C2_SingleFlightBuild ==
    \A b \in Backends : \A id \in IdsOf(b) :
        connections[b][id] = NoPool =>
            Cardinality({proc[p].pool : p \in InFlightBuilds(b, id)}) <= 1

C4_RateLimiterRegistrySanitizerExecution ==
    \A p \in Procs :
        proc[p].route \in QueryRoutes =>
            IsPrefix(proc[p].log, <<"rateLimit", "registry", "sanitize", "execute">>)

(***************************************************************************)
(* Specifications                                                          *)
(***************************************************************************)
InitFilter ==
    /\ fIn \in FilterInputs /\ fOut = Pending
    /\ pIn = NoValue /\ pOut = Pending
    /\ sIn = NoSqlInput /\ sOut = Pending
    /\ qIn = NoParamInput /\ qOut = Pending
    /\ connections = [b \in Backends |-> [i \in ConnIds |-> NoPool]]
    /\ pools = [n \in PoolIds |-> UnusedPool]
    /\ rateLimit = [k \in RateKeys |-> NoEntry]
    /\ dIn = NoTargetInput /\ dOut = Pending
    /\ clients = [i \in ConnIds |-> NoClient]
    /\ paramsIn = NoValue /\ paramsOut = Pending
    /\ now = 0 /\ admitLog = <<>>
    /\ proc = [p \in Procs |-> NoCall]
NextFilter == SanitizeFilter /\ UNCHANGED <<varsPipeline, varsSql, varsParams, varsTarget, varsQueryParams, varsService>>
SpecFilter == InitFilter /\ [][NextFilter]_vars

InitPipeline ==
    /\ pIn \in PipelineInputs /\ pOut = Pending
    /\ fIn = NoValue /\ fOut = Pending
    /\ sIn = NoSqlInput /\ sOut = Pending
    /\ qIn = NoParamInput /\ qOut = Pending
    /\ connections = [b \in Backends |-> [i \in ConnIds |-> NoPool]]
    /\ pools = [n \in PoolIds |-> UnusedPool]
    /\ rateLimit = [k \in RateKeys |-> NoEntry]
    /\ dIn = NoTargetInput /\ dOut = Pending
    /\ clients = [i \in ConnIds |-> NoClient]
    /\ paramsIn = NoValue /\ paramsOut = Pending
    /\ now = 0 /\ admitLog = <<>>
    /\ proc = [p \in Procs |-> NoCall]
NextPipeline == SanitizePipeline /\ UNCHANGED <<varsFilter, varsSql, varsParams, varsTarget, varsQueryParams, varsService>>
SpecPipeline == InitPipeline /\ [][NextPipeline]_vars

InitSql ==
    /\ sIn \in SqlInputs /\ sOut = Pending
    /\ qIn = NoParamInput /\ qOut = Pending
    /\ fIn = NoValue /\ fOut = Pending
    /\ pIn = NoValue /\ pOut = Pending
    /\ connections = [b \in Backends |-> [i \in ConnIds |-> NoPool]]
    /\ pools = [n \in PoolIds |-> UnusedPool]
    /\ rateLimit = [k \in RateKeys |-> NoEntry]
    /\ dIn = NoTargetInput /\ dOut = Pending
    /\ clients = [i \in ConnIds |-> NoClient]
    /\ paramsIn = NoValue /\ paramsOut = Pending
    /\ now = 0 /\ admitLog = <<>>
    /\ proc = [p \in Procs |-> NoCall]
NextSql == SanitizeSql /\ UNCHANGED <<varsFilter, varsPipeline, varsParams, varsTarget, varsQueryParams, varsService>>
SpecSql == InitSql /\ [][NextSql]_vars

(***************************************************************************)
(* What the claims about sanitizeParameterizedQuery speak of.              *)
(***************************************************************************)
\* The positional placeholders of a statement: each '$' that a digit follows.
PositionalPlaceholders(text) ==
    Cardinality({i \in 1..(Len(text) - 1) : text[i] = "$" /\ text[i + 1] \in DigitSet})

\* The runtime types of the allow-list: null, string, number, boolean, Date,
\* Buffer, array, plain object.
AllowListedParamKinds ==
    {"null", "string", "number", "boolean", "Date", "Buffer", "array", "object"}

OffendingParams(params) ==
    {i \in 1..Len(params) : params[i] \notin AllowListedParamKinds}

\* The error that names the first offending parameter: its zero-based index
\* and its typeof.
FirstOffenderError(params) ==
    ParamTypeError(SetMin(OffendingParams(params)) - 1,
                   TypeOf(params[SetMin(OffendingParams(params))]))

ParamTypeErrors(params) ==
    {ParamTypeError(i - 1, t) :
        i \in 1..Len(params), t \in {TypeOf(k) : k \in ParamKinds}}

\* The verdict of the statement check that runs before the parameters are
\* looked at.
StatementVerdict(in) ==
    sanitizeSqlQuery(in.sql, [allowWrite |-> in.options.allowWrite,
                              allowMultipleStatements |-> in.options.allowMultipleStatements,
                              maxLength |-> in.options.maxLength])

(***************************************************************************)
(* C11 (as claimed): a call is accepted only when the number of positional *)
(* placeholders of the statement equals params.length; every call with     *)
(* fewer or with more parameters than placeholders is rejected.  The code  *)
(* counts '$' characters, so SELECT '$' with one parameter is accepted.    *)
(***************************************************************************)
C11_PlaceholdersEqualParams ==
    qOut.status # "pending" =>
        /\ qOut.status = "ok" => PositionalPlaceholders(qIn.sql) = Len(qIn.params)
        /\ PositionalPlaceholders(qIn.sql) # Len(qIn.params) => qOut.status = "error"

(***************************************************************************)
(* C12 (as claimed): a call with more than maxParams parameters is         *)
(* rejected; a call with a parameter whose type is outside the allow-list  *)
(* is rejected with the error that names the index and type of the first   *)
(* such parameter; parameters of allow-listed types never cause a type     *)
(* error.                                                                  *)
(***************************************************************************)
C12_OffenderAlwaysNamed ==
    qOut.status # "pending" =>
        /\ Len(qIn.params) > qIn.options.maxParams => qOut.status = "error"
        /\ OffendingParams(qIn.params) # {} => qOut.error = FirstOffenderError(qIn.params)
        /\ OffendingParams(qIn.params) = {} => qOut.error \notin ParamTypeErrors(qIn.params)

(***************************************************************************)
(* C12 (amended): a call with more than maxParams parameters is rejected,  *)
(* and a call with a parameter whose type is outside the allow-list is     *)
(* rejected.  The error is that of the statement check when the statement  *)
(* is rejected, else the parameter-count error when params.length exceeds  *)
(* maxParams, else the error that names the index and type of the first    *)
(* offending parameter.  Parameters of allow-listed types never cause a    *)
(* type error.                                                             *)
(***************************************************************************)
C12_ParamsRejectedFirstCheckWins ==
    qOut.status # "pending" =>
        LET statement == StatementVerdict(qIn)
            tooMany == Len(qIn.params) > qIn.options.maxParams
            offending == OffendingParams(qIn.params) # {}
        IN  /\ (tooMany \/ offending) => qOut.status = "error"
            /\ (tooMany \/ offending) /\ statement.status = "error"
                  => qOut.error = statement.error
            /\ tooMany /\ statement.status = "ok"
                  => qOut.error = ParamCountError(qIn.options.maxParams)
            /\ offending /\ ~tooMany /\ statement.status = "ok"
                  => qOut.error = FirstOffenderError(qIn.params)
            /\ ~offending => qOut.error \notin ParamTypeErrors(qIn.params)

\* C12 witness: of two offending parameters the first has been named.
C12_Witness ==
    /\ qIn.params = <<"number", "function", "symbol">>
    /\ qIn.options.maxParams = DefaultMaxParams
    /\ qOut.error = ParamTypeError(1, "function")

(***************************************************************************)
(* Fixed windows, read off the recorded calls alone.  The first call of a  *)
(* key opens a window that lasts until its time plus the route's window    *)
(* length; a call of the key made after that instant opens the next one.   *)
(***************************************************************************)
RegisterLimit == LimitFor(RegisterPath)

\* the calls of one key among the first n recorded calls
CallsOf(key, n) == {i \in 1..n : admitLog[i].key = key}

RECURSIVE WindowOpener(_)
\* the call that opened the window the i-th recorded call falls into
WindowOpener(i) ==
    LET earlier == CallsOf(admitLog[i].key, i - 1)
    IN  IF earlier = {} THEN i
        ELSE LET opener == WindowOpener(SetMax(earlier))
             IN  IF admitLog[i].time > admitLog[opener].time + RegisterLimit.window
                 THEN i ELSE opener

\* the admitted calls of the window of call i that were made before call i
AdmittedBefore(i) ==
    {j \in CallsOf(admitLog[i].key, i - 1) :
        WindowOpener(j) = WindowOpener(i) /\ admitLog[j].success}

\* C13: within one window of one key exactly the first `limit` calls are
\* admitted and every further call is denied with the reset time fixed by the
\* call that opened the window; the first call made after the window has
\* elapsed opens a fresh window and is admitted; the stored window is the one
\* of the latest call and its reset time is never extended.
C13_FixedWindowAdmitsExactlyLimit ==
    /\ \A i \in 1..Len(admitLog) :
          /\ admitLog[i].success <=>
                Cardinality(AdmittedBefore(i)) < RegisterLimit.requests
          /\ WindowOpener(i) = i => admitLog[i].success
          /\ ~admitLog[i].success =>
                admitLog[i].resetTime =
                    admitLog[WindowOpener(i)].time + RegisterLimit.window
    /\ \A key \in RateKeys :
          LET calls == CallsOf(key, Len(admitLog))
              entry == SweepExpired(rateLimit, now)[key]
          IN  (calls # {} /\ entry.count > 0) =>
                 LET last == SetMax(calls)
                 IN  /\ entry.resetTime =
                            admitLog[WindowOpener(last)].time + RegisterLimit.window
                     /\ entry.count =
                            Cardinality(AdmittedBefore(last))
                              + (IF admitLog[last].success THEN 1 ELSE 0)

\* C13 witness: one key is admitted three times and denied the fourth time in
\* one window, and admitted again once that window has elapsed.
C13_Witness ==
    /\ Len(admitLog) = 5
    /\ \A i \in 1..5 : admitLog[i].key = RateKey("ip1", RegisterPath)
    /\ \A i \in 1..4 : admitLog[i].time = 0
    /\ [i \in 1..5 |-> admitLog[i].success] = <<TRUE, TRUE, TRUE, FALSE, TRUE>>
    /\ admitLog[4].resetTime = RegisterLimit.window
    /\ admitLog[5].time > RegisterLimit.window
    /\ rateLimit[RateKey("ip1", RegisterPath)] =
          [count |-> 1, resetTime |-> admitLog[5].time + RegisterLimit.window]

(***************************************************************************)
(* Precedence of the connection string over the discrete fields.           *)
(***************************************************************************)
\* the descriptors that differ from connection at most in the discrete host,
\* port, database and credential fields
SameButDiscreteFields(connection) ==
    {other \in TargetInputs :
        /\ other.backend = connection.backend
        /\ other.connectionString = connection.connectionString
        /\ IF connection.backend = "mongodb"
           THEN /\ other.srv = connection.srv
                /\ other.authenticationDatabase = connection.authenticationDatabase
                /\ other.authMechanism = connection.authMechanism
           ELSE other.ssl = connection.ssl}

\* C14: when the descriptor carries a connection string, the target built is
\* the same whatever the discrete host, port, database and credential fields
\* hold.
C14_ConnectionStringOverridesDiscreteFields ==
    (dOut # Pending /\ dIn.connectionString # <<>>) =>
        \A other \in SameButDiscreteFields(dIn) : BuildFor(other) = dOut

(***************************************************************************)
(* Reuse of a cached pool.                                                 *)
(***************************************************************************)
\* getMongoClient: the ping of the cached client resolved and the call
\* returns; the cached client is what it returns and nothing is constructed.
MongoCachedPoolHandedBack(p) ==
    (proc[p].pc = "ping" /\ proc'[p].pc = "client") =>
        /\ proc'[p].pool = proc[p].pool
        /\ UNCHANGED varsRegistry

\* the first operation on the client getMongoClient returned
MongoFirstOperationReuses(p) ==
    (proc[p].pc = "client" /\ proc'[p] # proc[p]) => UNCHANGED varsRegistry

\* getPostgresClient: the probe of the cached pool succeeded and the call
\* returns
PostgresProbeConstructsNothing(p) ==
    (proc[p].pc = "pgProbe" /\ proc'[p].pc = "pgClient") => UNCHANGED varsRegistry

\* the first operation on the client getPostgresClient returned after a
\* successful probe (that client's own pool field is null)
PostgresFirstOperationReuses(p) ==
    (proc[p].pc = "pgClient" /\ proc[p].pool = NoPool /\ proc'[p] # proc[p]) =>
        UNCHANGED varsRegistry

\* C15: when a pool is cached for the id and its probe succeeds, neither the
\* call nor the first operation on the returned client constructs a pool, and
\* the cache entry stays as it is.
C15_CachedPoolReused ==
    [][\A p \in Procs :
          /\ MongoCachedPoolHandedBack(p)
          /\ MongoFirstOperationReuses(p)
          /\ PostgresProbeConstructsNothing(p)
          /\ PostgresFirstOperationReuses(p)]_vars

(***************************************************************************)
(* close(id): closeConnection of the two registries and of the connection  *)
(* manager.                                                                *)
(***************************************************************************)
\* a step of a close(id) call of process p
CloseStep(p, id) ==
    \/ \E b \in Backends : CloseConnection(p, b, id)
    \/ ManagerCloseConnection(p, id)
    \/ /\ proc[p].connId = id
       /\ \/ CloseConnectionDone(p)
          \/ ManagerClientClosed(p)
          \/ ManagerMongoClosed(p)
          \/ ManagerPostgresClosed(p)

\* nothing is cached for the id: the call changes nothing and resolves
CloseOfAbsentIsNoOp(p, id) ==
    /\ \A b \in Backends :
          (CloseConnection(p, b, id) /\ connections[b][id] = NoPool) =>
              (UNCHANGED <<connections, pools, clients>> /\ proc'[p].status = "resolved")
    /\ (ManagerCloseConnection(p, id) /\ ~clients[id].cached /\ CachedFor(id) = {}) =>
              (UNCHANGED <<connections, pools, clients>> /\ proc'[p].status = "resolved")

\* the pools that were cached for the id when the call started
PoolsToClose(p, id) ==
    IF \E b \in Backends : CloseConnection(p, b, id)
    THEN {connections[b][id] : b \in {c \in Backends : CloseConnection(p, c, id)}} \ {NoPool}
    ELSE IF ManagerCloseConnection(p, id) THEN CachedFor(id)
    ELSE proc[p].snapshot \cup ({proc[p].pool} \ {NoPool})

\* the caches a close(id) step of process p is to empty: the registry's own
\* Map, or every cache when the call is the connection manager's
CachesOf(p, id) ==
    IF \E b \in Backends : CloseConnection(p, b, id)
    THEN {b \in Backends : CloseConnection(p, b, id)}
    ELSE IF CloseConnectionDone(p) THEN {proc[p].backend}
    ELSE Backends \cup {"manager"}

\* the call resolves: every pool that was cached for the id when it started
\* is closed and the caches of the call hold it no more
CloseClosesAndRemoves(p, id) ==
    (CloseStep(p, id) /\ proc'[p].pc = "settled" /\ proc'[p].status = "resolved") =>
        \A n \in PoolsToClose(p, id) :
            /\ pools'[n].state = "closed"
            /\ "manager" \in CachesOf(p, id) => clients'[id].pool # n
            /\ \A b \in CachesOf(p, id) \ {"manager"} : connections'[b][id] # n

\* what the caches hold for other ids, and the pools of other ids, stay as
\* they are
CloseLeavesOtherIds(p, id) ==
    CloseStep(p, id) =>
        /\ \A other \in ConnIds \ {id} :
              /\ clients'[other] = clients[other]
              /\ \A b \in Backends : connections'[b][other] = connections[b][other]
        /\ \A n \in PoolIds : pools[n].id # id => pools'[n] = pools[n]

\* C16: close(id) closes the pool cached for id and removes its entry, is a
\* no-op without error when nothing is cached for id (so a second close(id)
\* after a completed one changes nothing), and never touches another id.
C16_CloseIdempotent ==
    [][\A p \in Procs : \A id \in ConnIds :
          /\ CloseOfAbsentIsNoOp(p, id)
          /\ CloseClosesAndRemoves(p, id)
          /\ CloseLeavesOtherIds(p, id)]_vars

(***************************************************************************)
(* closeAll.  A pool becomes "open" in the step that puts it into the      *)
(* cache (connections.set follows the first connect), so the open pools of *)
(* a backend are pools that have been in its cache.                        *)
(***************************************************************************)
\* the pools of backend b, among pls, that have been cached and not closed
CachedAndNotClosed(b, pls) == {n \in PoolIds : pls[n].backend = b /\ pls[n].state = "open"}

\* C17: when closeAllConnections completes, every pool that has been in the
\* cache up to then is closed and the cache is empty, whatever getOrCreate
\* calls ran meanwhile.
C17_CloseAllClosesEveryCachedPool ==
    [][\A p \in Procs :
          CloseAllConnectionsDone(p) =>
              /\ CachedAndNotClosed(proc[p].backend, pools') = {}
              /\ \A id \in ConnIds : connections'[proc[p].backend][id] = NoPool]_vars

(***************************************************************************)
(* testConnection and the cache.                                           *)
(***************************************************************************)
\* process p takes a step of a testConnection call for the id
TestStep(p, id) ==
    \/ TestMongoConnection(p, id)
    \/ TestPostgresConnection(p, id)
    \/ /\ proc[p].route = "testConnection"
       /\ proc[p].connId = id
       /\ proc'[p] # proc[p]

\* the call ends with {success: false, error}
TestFails(p, id) == TestStep(p, id) /\ proc'[p].pc = "settled" /\ proc'[p].status = "failure"

\* C18: testConnection never throws; when it fails, the pool it built for
\* the test is in no cache (the entry of the tested id is what it was or has
\* been evicted); no step of the call changes the entry of another id.
C18_FailedTestLeavesCache ==
    [][\A p \in Procs : \A id \in ConnIds :
          /\ TestStep(p, id) => proc'[p].status # "rejected"
          /\ TestStep(p, id) =>
                \A b \in Backends : \A other \in ConnIds \ {id} :
                    connections'[b][other] = connections[b][other]
          /\ TestFails(p, id) =>
                (proc[p].pool \notin proc[p].snapshot =>
                    \A b \in Backends : connections'[b][id] # proc[p].pool)]_vars

(***************************************************************************)
(* What a rejected request is told.                                        *)
(***************************************************************************)
\* the requests that were answered after their sanitizer had rejected the
\* payload
RejectedRequests ==
    {p \in Procs : /\ proc[p].pc = "responded"
                   /\ proc[p].route \in QueryRoutes
                   /\ proc[p].verdict.status = "error"}

\* C19: the response to a request whose filter, pipeline or statement was
\* rejected carries the sanitizer's own message.
C19_RejectionSurfacedVerbatim ==
    \A p \in RejectedRequests : proc[p].body = proc[p].verdict.error

Missing(v) == v.kind = "none"

\* C21: only the filter is sanitized (the call fails exactly when a filter
\* is given and sanitizeQuery rejects it, and returns what sanitizeQuery made
\* of it), sort and projection come back as given, the limit returned is at
\* most 1000, and a missing filter, sort or projection comes back as {} and a
\* missing skip as 0.
C21_OnlyFilterSanitizedLimitClamped ==
    paramsOut # Pending =>
        LET given == paramsIn.val
            verdict == sanitizeQuery(given.filter, 0)
        IN  /\ paramsOut.status = "error" <=>
                  (~Missing(given.filter) /\ verdict.status = "error")
            /\ paramsOut.status = "error" => paramsOut.error = verdict.error
            /\ paramsOut.status = "ok" =>
                  LET out == paramsOut.value.val
                  IN  /\ out.filter = IF Missing(given.filter) THEN Obj(<<>>)
                                      ELSE verdict.value
                      /\ out.sort = IF Missing(given.sort) THEN Obj(<<>>) ELSE given.sort
                      /\ out.projection = IF Missing(given.projection) THEN Obj(<<>>)
                                          ELSE given.projection
                      /\ out.skip = given.skip
                      /\ out.limit <= 1000

\* C21 witness: a limit of 5000 comes back as 1000, a sort with $where comes
\* back as it is, the filter has lost its "__proto__" key and the missing
\* projection is {}.
C21_Witness ==
    /\ paramsIn = Params(ProtoFilter, WhereObject, NoValue, 20, 5000)
    /\ paramsOut = Return(Params(Obj(<< <<"a", Obj(<< <<"$eq", Val("2")>> >>)>> >>),
                                 WhereObject, Obj(<<>>), 20, 1000))

\* C30: the limit returned is in 1..1000 and the skip is not negative, so the
\* page number of the response is a positive integer.
C30_LimitAndSkipInRange ==
    paramsOut.status = "ok" =>
        LET out == paramsOut.value.val
        IN  /\ out.limit \in 1..1000
            /\ out.skip >= 0
            /\ Page(out) >= 1

(***************************************************************************)
(* What a denied request is told about the window.                         *)
(***************************************************************************)
\* the sql requests that were answered 429
DeniedRequests ==
    {p \in Procs : /\ proc[p].pc = "responded"
                   /\ proc[p].route = "sql"
                   /\ proc[p].status = "429"}

\* Math.ceil(ms / 1000)
CeilSeconds(ms) == (ms + 999) \div 1000

\* C22: the reset time of a denial is the reset time of the key's active
\* window and is not in the past, and the X-RateLimit-Reset header of the 429
\* response is that time.
C22_DenialReportsWindowReset ==
    \A p \in DeniedRequests :
        LET window == rateLimit[RateKey(proc[p].identity, SqlQueryPath)]
        IN  /\ window.count > 0
            /\ proc[p].deniedUntil = window.resetTime
            /\ proc[p].deniedUntil >= now
            /\ proc[p].resetHeader = CeilSeconds(proc[p].deniedUntil)

(***************************************************************************)
(* Eviction of a stale entry.                                              *)
(***************************************************************************)
\* the getOrCreate calls that are building a pool for the id
Builders(b, id) ==
    {p \in Procs : /\ proc[p].backend = b
                   /\ proc[p].connId = id
                   /\ proc[p].pc \in {"connect", "pgConnect"}}

\* the pools of the id whose probe failed in a call that is now rebuilding
FailedProbes(b, id) ==
    {n \in PoolIds : \E p \in Builders(b, id) : proc[p].via # "query" /\ n \in proc[p].snapshot}

\* C23: while a pool is being built for an id, the cache holds no entry of
\* that id whose probe has failed.
C23_StaleEntryEvictedBeforeRebuild ==
    \A b \in Backends : \A id \in ConnIds :
        Builders(b, id) # {} => connections[b][id] \notin FailedProbes(b, id)

\* C23 witness: the ping of the cached client failed, the rebuild is awaiting
\* its connect and the Map has no entry for the id.
C23_Witness ==
    \E p \in Procs :
        /\ proc[p].pc = "connect"
        /\ proc[p].snapshot # {}
        /\ proc[p].pool \notin proc[p].snapshot
        /\ connections["mongo"][proc[p].connId] = NoPool

(***************************************************************************)
(* One rebuild after a failed probe.                                       *)
(***************************************************************************)
\* the probe of the cached pool failed in this call and the replacement is
\* awaiting its connect
Rebuilding(p) ==
    /\ proc[p].pc \in {"connect", "pgConnect"}
    /\ proc[p].via # "query"
    /\ proc[p].snapshot # {}
    /\ proc[p].pool \notin proc[p].snapshot

\* the probe of this call is pending
Probing(p) == proc[p].pc \in {"ping", "pgProbe"}

\* the call has its client: the pool it built is open and is the entry of the id
RebuildReturned(p) ==
    /\ proc'[p].pc \in {"client", "pgClient"}
    /\ proc'[p].pool = proc[p].pool
    /\ pools'[proc[p].pool].state = "open"
    /\ connections'[proc[p].backend][proc[p].connId] = proc[p].pool

\* the call ends with the connection error: the step caches nothing and the
\* entry of the id is neither the stale pool nor the pool that failed
RebuildSurfacedError(p) ==
    /\ proc'[p].pc = "settled"
    /\ proc'[p].status = "rejected"
    /\ pools'[proc[p].pool].state = "failed"
    /\ connections' = connections
    /\ connections[proc[p].backend][proc[p].connId] \notin (proc[p].snapshot \cup {proc[p].pool})

CheckErrors(sql, options) ==
    LET patternCheck == containsDangerousPattern(sql)
        keywordCheck == containsDangerousKeyword(sql)
    IN  << IF Len(sql) > options.maxLength THEN LengthError ELSE "",
           IF ~options.allowMultipleStatements /\ StraySemicolon(sql)
           THEN MultiStatementError ELSE "",
           IF patternCheck.dangerous THEN PatternError(patternCheck.pattern) ELSE "",
           IF ~options.allowWrite /\ keywordCheck.dangerous
           THEN KeywordError(keywordCheck.keyword) ELSE "",
           IF ~options.allowWrite /\ ~startsWithAllowedStatement(sql)
           THEN StatementError ELSE "" >>

FailedChecks(errors) == {i \in DOMAIN errors : errors[i] # ""}

\* C25: the error reported is that of the earliest check the statement
\* violates, in the order length, multi-statement, dangerous pattern (whatever
\* allowWrite), dangerous keyword (read-only only), leading statement
\* (read-only only); a statement that passes every applicable check is
\* returned as it was given.
C25_ChecksInFixedOrder ==
    sOut.status # "pending" =>
        LET errors == CheckErrors(sIn.sql, sIn.options)
            failed == FailedChecks(errors)
        IN  sOut = IF failed = {} THEN Return(Sql(sIn.sql))
                   ELSE Throw(errors[SetMin(failed)])

\* C25 witness: a read-only statement that violates the pattern check, the
\* keyword scan and the leading-statement check has been rejected with the
\* pattern error.
C25_Witness ==
    /\ sOut.status = "error"
    /\ FailedChecks(CheckErrors(sIn.sql, sIn.options)) = {3, 4, 5}
    /\ sOut.error = PatternError(containsDangerousPattern(sIn.sql).pattern)

(***************************************************************************)
(* sanitizeQuery as a copy.                                                *)
(***************************************************************************)
\* C26: sanitizeQuery either returns a value structurally equal to its input
\* (the same keys in the same order, the same leaves, the same array
\* elements) or throws the first violation in depth-first key order.
C26_SanitizeQueryCopiesOrThrows ==
    fOut.status # "pending" =>
        IF FirstViolationError(fIn) = "" THEN fOut = Return(fIn)
        ELSE fOut = Throw(FirstViolationError(fIn))

(***************************************************************************)
(* The MongoDB target built from discrete fields.                          *)
(***************************************************************************)
Contains(text, word) == \E i \in 1..Len(text) : MatchAt(text, i, word)

CountOf(text, c) == Cardinality({i \in 1..Len(text) : text[i] = c})

\* C27: without a connection string the target is mongodb+srv://host with no
\* port exactly when srv is set and mongodb://host:port otherwise; the
\* percent-encoded credentials (one '@', after them) and the authSource /
\* authMechanism suffix are there only when username and password are both
\* present.
C27_MongoTargetFromDiscreteFields ==
    (dOut # Pending /\ dIn.backend = "mongodb" /\ dIn.connectionString = <<>>) =>
        LET both == dIn.username # <<>> /\ dIn.password # <<>>
            scheme == IF dIn.srv THEN <<"m", "o", "n", "g", "o", "d", "b", "+", "s", "r", "v", ":", "/", "/">> ELSE <<"m", "o", "n", "g", "o", "d", "b", ":", "/", "/">>
            hostPart == IF dIn.srv THEN dIn.host
                        ELSE dIn.host \o <<":">> \o NumberToString(dIn.port)
            credentials == IF both
                           THEN encodeURIComponent(dIn.username) \o <<":">>
                                   \o encodeURIComponent(dIn.password) \o <<"@">>
                           ELSE <<>>
            target == dOut.value
        IN  /\ dOut.status = "ok"
            /\ IsPrefix(scheme \o credentials \o hostPart, target)
            /\ dIn.srv => ~Contains(target, NumberToString(dIn.port))
            /\ ~both => target = scheme \o hostPart
            /\ CountOf(target, "@") = (IF both THEN 1 ELSE 0)
            /\ Contains(target, <<"a", "u", "t", "h", "S", "o", "u", "r", "c", "e", "=">>) <=> (both /\ dIn.authenticationDatabase # <<>>)
            /\ Contains(target, <<"a", "u", "t", "h", "M", "e", "c", "h", "a", "n", "i", "s", "m", "=">>) <=>
                  (both /\ dIn.authMechanism \notin {<<>>, <<"D", "E", "F", "A", "U", "L", "T">>})

\* C27 witness: a standard target with credentials, whose '@' is encoded, an
\* authentication database and a mechanism.
C27_Witness ==
    /\ dIn.backend = "mongodb"
    /\ dIn.connectionString = <<>>
    /\ ~dIn.srv
    /\ dIn.username = <<"u", "@">>
    /\ dOut = Return(<<"m", "o", "n", "g", "o", "d", "b", ":", "/", "/", "u", "%", "4", "0", ":", "p", "@", "h", ":", "2", "7", "0", "1", "7", "/", "a", "u", "t",
                       "h", "S", "o", "u", "r", "c", "e", "=", "a", "&", "a", "u", "t", "h", "M", "e", "c", "h", "a", "n", "i", "s", "m", "=", "P", "L", "A", "I", "N">>)

(***************************************************************************)
(* Pools outside the cache.                                                *)
(***************************************************************************)
\* C28: every pool that was built and has not been closed is the cache entry
\* of its id: a pool removed from a cache (evicted after a failed probe,
\* closed, cleared by closeAll, overwritten) has been closed.
C28_OpenPoolIsCacheEntry ==
    \A n \in PoolIds :
        pools[n].state = "open" => connections[pools[n].backend][pools[n].id] = n

(***************************************************************************)
(* The allow-list and the deny-list of sanitizeQuery.                      *)
(***************************************************************************)
\* C29: no operator of ALLOWED_QUERY_OPERATORS is denied: a filter within the
\* depth limit whose operator keys are all in ALLOWED_QUERY_OPERATORS is
\* accepted by sanitizeQuery.
C29_AllowedOperatorsAccepted ==
    (/\ fOut.status # "pending"
     /\ VisitDepth(fIn) <= MaxQueryDepth
     /\ \A k \in KeysOf(fIn) : StartsWithDollar(k) => k \in ALLOWED_QUERY_OPERATORS)
        => fOut.status = "ok"

InitParams ==
    /\ qIn \in ParamInputs /\ qOut = Pending
    /\ fIn = NoValue /\ fOut = Pending
    /\ pIn = NoValue /\ pOut = Pending
    /\ sIn = NoSqlInput /\ sOut = Pending
    /\ connections = [b \in Backends |-> [i \in ConnIds |-> NoPool]]
    /\ pools = [n \in PoolIds |-> UnusedPool]
    /\ rateLimit = [k \in RateKeys |-> NoEntry]
    /\ dIn = NoTargetInput /\ dOut = Pending
    /\ clients = [i \in ConnIds |-> NoClient]
    /\ paramsIn = NoValue /\ paramsOut = Pending
    /\ now = 0 /\ admitLog = <<>>
    /\ proc = [p \in Procs |-> NoCall]
NextParams ==
    SanitizeParameterized /\ UNCHANGED <<varsFilter, varsPipeline, varsSql, varsTarget, varsQueryParams, varsService>>
SpecParams == InitParams /\ [][NextParams]_vars

\* The registries on their own: no cache entry, no pool, no call in flight.
\* Calls name the ids "m1" and "g1" at the document store and "g1" at the
\* relational store.
InitRegistry ==
    /\ fIn = NoValue /\ fOut = Pending
    /\ pIn = NoValue /\ pOut = Pending
    /\ sIn = NoSqlInput /\ sOut = Pending
    /\ qIn = NoParamInput /\ qOut = Pending
    /\ connections = [b \in Backends |-> [i \in ConnIds |-> NoPool]]
    /\ pools = [n \in PoolIds |-> UnusedPool]
    /\ rateLimit = [k \in RateKeys |-> NoEntry]
    /\ dIn = NoTargetInput /\ dOut = Pending
    /\ clients = [i \in ConnIds |-> NoClient]
    /\ paramsIn = NoValue /\ paramsOut = Pending
    /\ now = 0 /\ admitLog = <<>>
    /\ proc = [p \in Procs |-> NoCall]
NextRegistry ==
    \E p \in Procs :
        \/ \E id \in ConnIds : GetMongoClient(p, id)
        \/ GetMongoClientPingOk(p)
        \/ GetMongoClientPingFail(p)
        \/ GetMongoClientConnectOk(p)
        \/ GetMongoClientConnectFail(p)
        \/ GetMongoClientReturn(p)
        \/ \E id \in IdsOf("pg") : ExecuteQuery(p, id)
        \/ GetPostgresClientProbeOk(p)
        \/ GetPostgresClientProbeFail(p)
        \/ PostgresClientConnectOk(p)
        \/ PostgresClientConnectFail(p)
        \/ PostgresClientQuery(p)
        \/ BackendReply(p)
        \/ BackendError(p)
        \/ \E b \in Backends : \E id \in IdsOf(b) : CloseConnection(p, b, id)
        \/ CloseConnectionDone(p)
        \/ \E b \in Backends : CloseAllConnections(p, b)
        \/ CloseAllConnectionsDone(p)
SpecRegistry == InitRegistry /\ [][NextRegistry]_vars

\* The routes: the caches are empty, and the rate limiter's Map holds what
\* the admitted requests of "ip1" at time 0, one fewer than the limit, have
\* left in it; half of that window has passed.
InitGateway ==
    /\ fIn = NoValue /\ fOut = Pending
    /\ pIn = NoValue /\ pOut = Pending
    /\ sIn = NoSqlInput /\ sOut = Pending
    /\ qIn = NoParamInput /\ qOut = Pending
    /\ connections = [b \in Backends |-> [i \in ConnIds |-> NoPool]]
    /\ pools = [n \in PoolIds |-> UnusedPool]
    /\ rateLimit =
          [k \in RateKeys |->
              IF k = RateKey("ip1", SqlQueryPath)
              THEN [count |-> LimitFor(SqlQueryPath).requests - 1,
                    resetTime |-> LimitFor(SqlQueryPath).window]
              ELSE NoEntry]
    /\ dIn = NoTargetInput /\ dOut = Pending
    /\ clients = [i \in ConnIds |-> NoClient]
    /\ paramsIn = NoValue /\ paramsOut = Pending
    /\ now = LimitFor(SqlQueryPath).window \div 2 /\ admitLog = <<>>
    /\ proc = [p \in Procs |-> NoCall]
NextGateway ==
    \E p \in Procs :
        \/ \E req \in FindRequests : FindDocuments(p, req)
        \/ FindDocumentsCount(p)
        \/ FindDocumentsFind(p)
        \/ \E req \in AggregateRequests : Aggregate(p, req)
        \/ AggregateRun(p)
        \/ \E req \in SqlRequests : ExecuteSql(p, req)
        \/ GetMongoClientPingOk(p)
        \/ GetMongoClientPingFail(p)
        \/ GetMongoClientConnectOk(p)
        \/ GetMongoClientConnectFail(p)
        \/ GetPostgresClientProbeOk(p)
        \/ GetPostgresClientProbeFail(p)
        \/ PostgresClientConnectOk(p)
        \/ PostgresClientConnectFail(p)
        \/ PostgresClientQuery(p)
        \/ BackendReply(p)
        \/ BackendError(p)
SpecGateway == InitGateway /\ [][NextGateway]_vars

(***************************************************************************)
(* The rate limiter called directly while time passes.                     *)
(***************************************************************************)
InitLimiter ==
    /\ fIn = NoValue /\ fOut = Pending
    /\ pIn = NoValue /\ pOut = Pending
    /\ sIn = NoSqlInput /\ sOut = Pending
    /\ qIn = NoParamInput /\ qOut = Pending
    /\ connections = [b \in Backends |-> [i \in ConnIds |-> NoPool]]
    /\ pools = [n \in PoolIds |-> UnusedPool]
    /\ rateLimit = [k \in RateKeys |-> NoEntry]
    /\ dIn = NoTargetInput /\ dOut = Pending
    /\ clients = [i \in ConnIds |-> NoClient]
    /\ paramsIn = NoValue /\ paramsOut = Pending
    /\ now = 0 /\ admitLog = <<>>
    /\ proc = [p \in Procs |-> NoCall]

NextLimiter ==
    \/ \E identifier \in Identities : CheckRateLimit(identifier)
    \/ Tick

SpecLimiter == InitLimiter /\ [][NextLimiter]_vars

(***************************************************************************)
(* The connection target builders applied to one descriptor.               *)
(***************************************************************************)
InitTarget ==
    /\ dIn \in TargetInputs /\ dOut = Pending
    /\ clients = [i \in ConnIds |-> NoClient]
    /\ paramsIn = NoValue /\ paramsOut = Pending
    /\ fIn = NoValue /\ fOut = Pending
    /\ pIn = NoValue /\ pOut = Pending
    /\ sIn = NoSqlInput /\ sOut = Pending
    /\ qIn = NoParamInput /\ qOut = Pending
    /\ connections = [b \in Backends |-> [i \in ConnIds |-> NoPool]]
    /\ pools = [n \in PoolIds |-> UnusedPool]
    /\ rateLimit = [k \in RateKeys |-> NoEntry]
    /\ now = 0 /\ admitLog = <<>>
    /\ proc = [p \in Procs |-> NoCall]

NextTarget == BuildTarget /\ UNCHANGED <<varsSanitizers, varsQueryParams, varsService>>

SpecTarget == InitTarget /\ [][NextTarget]_vars

(***************************************************************************)
(* The connection manager and the registries below it.                     *)
(***************************************************************************)
InitManager ==
    /\ fIn = NoValue /\ fOut = Pending
    /\ pIn = NoValue /\ pOut = Pending
    /\ sIn = NoSqlInput /\ sOut = Pending
    /\ qIn = NoParamInput /\ qOut = Pending
    /\ connections = [b \in Backends |-> [i \in ConnIds |-> NoPool]]
    /\ pools = [n \in PoolIds |-> UnusedPool]
    /\ rateLimit = [k \in RateKeys |-> NoEntry]
    /\ dIn = NoTargetInput /\ dOut = Pending
    /\ clients = [i \in ConnIds |-> NoClient]
    /\ paramsIn = NoValue /\ paramsOut = Pending
    /\ now = 0 /\ admitLog = <<>>
    /\ proc = [p \in Procs |-> NoCall]

NextManager ==
    \E p \in Procs :
        \/ \E id \in ConnIds : GetDatabaseClient(p, id)
        \/ GetDatabaseClientReturn(p)
        \/ GetMongoClientPingOk(p)
        \/ GetMongoClientPingFail(p)
        \/ GetMongoClientConnectOk(p)
        \/ GetMongoClientConnectFail(p)
        \/ \E id \in IdsOf("pg") : ExecuteQuery(p, id)
        \/ GetPostgresClientProbeOk(p)
        \/ GetPostgresClientProbeFail(p)
        \/ PostgresClientConnectOk(p)
        \/ PostgresClientConnectFail(p)
        \/ PostgresClientQuery(p)
        \/ BackendReply(p)
        \/ BackendError(p)
        \/ \E b \in Backends : \E id \in IdsOf(b) : CloseConnection(p, b, id)
        \/ CloseConnectionDone(p)
        \/ \E id \in ConnIds : ManagerCloseConnection(p, id)
        \/ ManagerClientClosed(p)
        \/ ManagerMongoClosed(p)
        \/ ManagerPostgresClosed(p)

SpecManager == InitManager /\ [][NextManager]_vars

(***************************************************************************)
(* testConnection next to the calls that fill and empty the caches.        *)
(***************************************************************************)
InitTest ==
    /\ fIn = NoValue /\ fOut = Pending
    /\ pIn = NoValue /\ pOut = Pending
    /\ sIn = NoSqlInput /\ sOut = Pending
    /\ qIn = NoParamInput /\ qOut = Pending
    /\ connections = [b \in Backends |-> [i \in ConnIds |-> NoPool]]
    /\ pools = [n \in PoolIds |-> UnusedPool]
    /\ rateLimit = [k \in RateKeys |-> NoEntry]
    /\ dIn = NoTargetInput /\ dOut = Pending
    /\ clients = [i \in ConnIds |-> NoClient]
    /\ paramsIn = NoValue /\ paramsOut = Pending
    /\ now = 0 /\ admitLog = <<>>
    /\ proc = [p \in Procs |-> NoCall]

NextTest ==
    \E p \in Procs :
        \/ \E id \in ConnIds : TestMongoConnection(p, id)
        \/ TestMongoConnectionPingOk(p)
        \/ TestMongoConnectionPingFail(p)
        \/ \E id \in IdsOf("pg") : TestPostgresConnection(p, id)
        \/ TestPostgresConnectionOk(p)
        \/ TestPostgresConnectionFail(p)
        \/ \E id \in ConnIds : GetMongoClient(p, id)
        \/ GetMongoClientPingOk(p)
        \/ GetMongoClientPingFail(p)
        \/ GetMongoClientConnectOk(p)
        \/ GetMongoClientConnectFail(p)
        \/ GetMongoClientReturn(p)
        \/ \E id \in IdsOf("pg") : ExecuteQuery(p, id)
        \/ GetPostgresClientProbeOk(p)
        \/ GetPostgresClientProbeFail(p)
        \/ PostgresClientConnectOk(p)
        \/ PostgresClientConnectFail(p)
        \/ PostgresClientQuery(p)
        \/ BackendReply(p)
        \/ BackendError(p)

SpecTest == InitTest /\ [][NextTest]_vars

(***************************************************************************)
(* sanitizeQueryParams applied to one set of query parameters.             *)
(***************************************************************************)
InitQueryParams ==
    /\ paramsIn \in QueryParamsInputs /\ paramsOut = Pending
    /\ fIn = NoValue /\ fOut = Pending
    /\ pIn = NoValue /\ pOut = Pending
    /\ sIn = NoSqlInput /\ sOut = Pending
    /\ qIn = NoParamInput /\ qOut = Pending
    /\ connections = [b \in Backends |-> [i \in ConnIds |-> NoPool]]
    /\ pools = [n \in PoolIds |-> UnusedPool]
    /\ rateLimit = [k \in RateKeys |-> NoEntry]
    /\ dIn = NoTargetInput /\ dOut = Pending
    /\ clients = [i \in ConnIds |-> NoClient]
    /\ now = 0 /\ admitLog = <<>>
    /\ proc = [p \in Procs |-> NoCall]

NextQueryParams ==
    SanitizeQueryParams /\ UNCHANGED <<varsSanitizers, varsTarget, varsService>>

SpecQueryParams == InitQueryParams /\ [][NextQueryParams]_vars

====
